---- MODULE Spec2Model ----
(***************************************************************************)
(* A model of the chii schema-directed compressor: the bit math, the Glob   *)
(* bit buffer, the variable-width integer encoding (VIE), the compressed    *)
(* object (CO) builder, its validator and serializer, and the encoder.      *)
(* Bytes are naturals in 0..255, byte vectors are sequences of bytes, and   *)
(* bit i of a byte vector is bit (i mod 8) of its byte (i div 8).           *)
(***************************************************************************)
EXTENDS Integers, Sequences, FiniteSets, TLC

VARIABLES
    glob, prev, other, appends,
    ty, x, cp, dty, decoded, vpc,
    blocks, result, cpc, wellFormed, viaBuilder, lastOp, prevBlocks,
    marker_width, out_bytes,
    marker, mglob, appended, packed, mpc,
    schema, value, enc, tr,
    new_width, new_data, new_glob, npc,
    comp, cin, cout, cback, cmpc,
    sarg, built, fmaps, smw, spc,
    shl_v, shl_k, shl_out, shpc,
    ga, gb, gc, gleft, gright, apc

vars == <<glob, prev, other, appends, ty, x, cp, dty, decoded, vpc,
          blocks, result, cpc, wellFormed, viaBuilder, lastOp, prevBlocks,
          marker_width, out_bytes,
          marker, mglob, appended, packed, mpc, schema, value, enc, tr,
          new_width, new_data, new_glob, npc, comp, cin, cout, cback, cmpc,
          sarg, built, fmaps, smw, spc, shl_v, shl_k, shl_out, shpc,
          ga, gb, gc, gleft, gright, apc>>

globVars == <<glob, prev, other, appends>>
vieVars == <<ty, x, cp, dty, decoded, vpc>>
coHist == <<viaBuilder, lastOp, prevBlocks>>
coVars == <<blocks, result, cpc, wellFormed, coHist>>
serVars == <<marker_width, out_bytes>>
markerVars == <<marker, mglob, appended, packed, mpc>>
encVars == <<schema, value, enc, tr>>
newVars == <<new_width, new_data, new_glob, npc>>
compVars == <<comp, cin, cout, cback, cmpc>>
schemaVars == <<sarg, built, fmaps, smw, spc>>
shlVars == <<shl_v, shl_k, shl_out, shpc>>
assocVars == <<ga, gb, gc, gleft, gright, apc>>

\* the variables each specification leaves alone
notGlob == <<vieVars, coVars, serVars, markerVars, encVars, newVars, compVars,
    schemaVars, shlVars, assocVars>>
notVie == <<globVars, coVars, serVars, markerVars, encVars, newVars, compVars,
    schemaVars, shlVars, assocVars>>
notCo == <<globVars, vieVars, serVars, markerVars, encVars, newVars, compVars,
    schemaVars, shlVars, assocVars>>
notSer == <<globVars, vieVars, markerVars, encVars, newVars, compVars,
    schemaVars, shlVars, assocVars>>
notMarker == <<globVars, vieVars, coVars, out_bytes, encVars, newVars, compVars,
    schemaVars, shlVars, assocVars>>
notEnc == <<globVars, vieVars, coVars, serVars, markerVars, newVars, compVars,
    schemaVars, shlVars, assocVars>>
notNew == <<globVars, vieVars, coVars, serVars, markerVars, encVars, compVars,
    schemaVars, shlVars, assocVars>>
notComp == <<globVars, vieVars, coVars, serVars, markerVars, encVars, newVars, schemaVars, shlVars, assocVars>>
notSchema == <<globVars, vieVars, coVars, serVars, markerVars, encVars, newVars, compVars,
              shlVars, assocVars>>
notShl == <<globVars, vieVars, coVars, serVars, markerVars, encVars, newVars, compVars,
           schemaVars, assocVars>>
notAssoc == <<globVars, vieVars, coVars, serVars, markerVars, encVars, newVars, compVars,
             schemaVars, shlVars>>

(***************************************************************************)
(* Bounds of the model.                                                     *)
(***************************************************************************)
\* widest glob drawn as an input of append
MaxGlobWidth == 9
\* longest sequence of appends applied to one glob
MaxAppends == 2
\* most blocks of a compressed object that is built and validated
MaxBlocks == 4
\* most blocks of a compressed object that is built and serialized
MaxSerBlocks == 3
\* widest marker width passed to into_bytes
MaxSerWidth == 4
\* the bits of a marker value (u32)
MarkerValueBits == 32
\* schema.rs: the number of reserved marker values
NUM_RESERVED_KEYS == 4
\* longest list among the values that are encoded
MaxListLen == 2

(***************************************************************************)
(* Byte arithmetic (u8).                                                    *)
(***************************************************************************)
Pow2(n) == 2 ^ n

\* bit i (0 = least significant) of the natural b
BitOf(b, i) == (b \div Pow2(i)) % 2

\* a | b on u8
OrByte(a, b) ==
    LET f[i \in 0..8] ==
            IF i = 8 THEN 0
            ELSE (IF BitOf(a, i) = 1 \/ BitOf(b, i) = 1 THEN Pow2(i) ELSE 0) + f[i + 1]
    IN f[0]

\* a & b on u8
AndByte(a, b) ==
    LET f[i \in 0..8] ==
            IF i = 8 THEN 0
            ELSE (IF BitOf(a, i) = 1 /\ BitOf(b, i) = 1 THEN Pow2(i) ELSE 0) + f[i + 1]
    IN f[0]

\* bit i of the byte vector data, 0 when i lies beyond its last byte
BitAt(data, i) ==
    IF (i \div 8) + 1 \in DOMAIN data THEN BitOf(data[(i \div 8) + 1], i % 8) ELSE 0

\* v >> (8 * k)
RECURSIVE ShrBytes(_, _)
ShrBytes(v, k) == IF k = 0 THEN v ELSE ShrBytes(v \div 256, k - 1)

\* the little-endian bytes (n of them) of the natural v
LeBytes(v, n) == [k \in 1..n |-> ShrBytes(v, k - 1) % 256]

(***************************************************************************)
(* math.rs                                                                  *)
(***************************************************************************)
div_ceil(lhs, rhs) ==
    LET q == lhs \div rhs
    IN IF lhs % rhs # 0 THEN q + 1 ELSE q

\* <<shifted, carry>>
shl_with_carry(lhs, rhs) ==
    IF rhs = 8 THEN <<0, lhs>>
    ELSE IF rhs = 0 THEN <<lhs, 0>>
    ELSE <<(lhs * Pow2(rhs)) % 256, lhs \div Pow2(8 - rhs)>>

\* the loop of vec_shl over v[i..], carry_in being the carry of byte i-1;
\* returns the shifted bytes followed by the final carry as a last element
RECURSIVE VecShlLoop(_, _, _, _)
VecShlLoop(v, n, i, carry_in) ==
    IF i > Len(v) THEN <<carry_in>>
    ELSE LET sc == shl_with_carry(v[i], n)
         IN <<OrByte(sc[1], carry_in)>> \o VecShlLoop(v, n, i + 1, sc[2])

vec_shl(v, n) ==
    LET r == VecShlLoop(v, n, 1, 0)
    IN IF n % 8 # 0 THEN r ELSE SubSeq(r, 1, Len(v))

(***************************************************************************)
(* glob.rs / co.rs: Glob                                                    *)
(***************************************************************************)
Glob(width, data) == [width |-> width, data |-> data]

\* Glob::truncate_data: pop bytes while there are more than ceil(width / 8)
truncate_data(g) ==
    LET required_bytes == div_ceil(g.width, 8)
    IN IF Len(g.data) > required_bytes
       THEN Glob(g.width, SubSeq(g.data, 1, required_bytes))
       ELSE g

\* Glob::new panics on these arguments
GlobNewPanics(width, data) == width = 0 \/ Len(data) < width \div 8

\* Glob::new, where it does not panic
GlobNew(width, data) == truncate_data(Glob(width, data))

\* Glob::append with a mutated carry: the bits shifted out of other's bytes are lost
GlobAppendDropCarry(self, otherGlob) ==
    IF self.width % 8 = 0
    THEN Glob(self.width + otherGlob.width, self.data \o otherGlob.data)
    ELSE LET shift_amount == self.width % 8
             shifted == [k \in 1..Len(otherGlob.data) |->
                            (otherGlob.data[k] * Pow2(shift_amount)) % 256]
             n == Len(self.data)
             merged == [self.data EXCEPT ![n] = OrByte(self.data[n], shifted[1])]
         IN truncate_data(Glob(self.width + otherGlob.width,
                               merged \o SubSeq(shifted, 2, Len(shifted)) \o <<0>>))

\* Glob::append with the final truncation left out
GlobAppendNoTruncate(self, otherGlob) ==
    IF self.width % 8 = 0
    THEN Glob(self.width + otherGlob.width, self.data \o otherGlob.data)
    ELSE LET shift_amount == self.width % 8
             shifted == vec_shl(otherGlob.data, shift_amount)
             n == Len(self.data)
             merged == [self.data EXCEPT ![n] = OrByte(self.data[n], shifted[1])]
         IN Glob(self.width + otherGlob.width,
                 merged \o SubSeq(shifted, 2, Len(shifted)))

\* Glob::append with a mutated merge: the first shifted byte replaces the
\* last byte of self where the code ORs it in
GlobAppendOverwrite(self, otherGlob) ==
    IF self.width % 8 = 0
    THEN Glob(self.width + otherGlob.width, self.data \o otherGlob.data)
    ELSE LET shift_amount == self.width % 8
             shifted == vec_shl(otherGlob.data, shift_amount)
             n == Len(self.data)
             merged == [self.data EXCEPT ![n] = shifted[1]]
         IN truncate_data(Glob(self.width + otherGlob.width,
                               merged \o SubSeq(shifted, 2, Len(shifted))))

\* Glob::append
GlobAppend(self, otherGlob) ==
    IF self.width % 8 = 0
    THEN Glob(self.width + otherGlob.width, self.data \o otherGlob.data)
    ELSE LET shift_amount == self.width % 8
             shifted == vec_shl(otherGlob.data, shift_amount)
             n == Len(self.data)
             merged == [self.data EXCEPT ![n] = OrByte(self.data[n], shifted[1])]
         IN truncate_data(Glob(self.width + otherGlob.width,
                               merged \o SubSeq(shifted, 2, Len(shifted))))

\* the Glob invariants: a positive width, exactly ceil(width / 8) bytes, and
\* no bit set at a position >= width
GlobInvariant(g) ==
    /\ g.width > 0
    /\ Len(g.data) = div_ceil(g.width, 8)
    /\ \A i \in g.width..(8 * Len(g.data) - 1) : BitAt(g.data, i) = 0

(***************************************************************************)
(* Inputs of the Glob operations: for every width up to MaxGlobWidth the    *)
(* globs holding all zeros, all ones, and alternating bits.                 *)
(***************************************************************************)
Alternating(w) == LET f[i \in 0..w] == IF i = w THEN 0
                                       ELSE (IF i % 2 = 0 THEN Pow2(i) ELSE 0) + f[i + 1]
                  IN f[0]

GlobValues(w) == {0, Pow2(w) - 1, Alternating(w)}

ValidGlobs ==
    {Glob(w, LeBytes(v, div_ceil(w, 8))) : <<w, v>> \in
        {p \in (1..MaxGlobWidth) \X (0..(Pow2(MaxGlobWidth) - 1)) : p[2] \in GlobValues(p[1])}}

NoGlob == Glob(0, <<>>)

(***************************************************************************)
(* Specification SpecGlob: a glob that is appended to.                      *)
(***************************************************************************)
VieIdle ==
    /\ ty = "u8" /\ x = <<0>> /\ cp = <<>> /\ dty = "u8"
    /\ decoded = [some |-> FALSE, bytes |-> <<>>] /\ vpc = "idle"

GlobIdle ==
    /\ glob = NoGlob /\ prev = NoGlob /\ other = NoGlob /\ appends = 0

\* no operation has been applied to the object yet
NoOp == [op |-> "none", m |-> [tag |-> "Null", v |-> 0], g |-> NoGlob]

CoIdle ==
    /\ blocks = <<>> /\ result = [ok |-> FALSE, err |-> "NotRun", index |-> 0]
    /\ cpc = "idle" /\ wellFormed = FALSE
    /\ viaBuilder = FALSE /\ lastOp = NoOp /\ prevBlocks = <<>>

SerIdle ==
    /\ marker_width = 0 /\ out_bytes = <<>>

MarkerIdle ==
    /\ marker = [tag |-> "Null", v |-> 0] /\ mglob = NoGlob /\ packed = NoGlob
    /\ appended = NoGlob
    /\ mpc = "idle"

NotRun == [done |-> FALSE, ok |-> FALSE, panicked |-> FALSE, err |-> "", co |-> <<>>]

EncIdle ==
    /\ schema = [kind |-> "List", elem |-> [kind |-> "PassThrough"]]
    /\ value = [kind |-> "arr", items |-> <<>>]
    /\ enc = NotRun /\ tr = NotRun

NewIdle ==
    /\ new_width = 0 /\ new_data = <<>> /\ new_glob = NoGlob /\ npc = "idle"

\* a compressor call that has not returned: g is the glob of an Ok compress,
\* bytes the vector of an Ok decompress
NoOutcome ==
    [done |-> FALSE, ok |-> FALSE, panicked |-> FALSE, err |-> "", g |-> NoGlob, bytes |-> <<>>]

CompIdle ==
    /\ comp = [kind |-> "PassThrough"] /\ cin = <<>>
    /\ cout = NoOutcome /\ cback = NoOutcome /\ cmpc = "idle"

\* no schema has been built
NoSchema == [kind |-> "None"]
\* field_map and inverse_field_map have not been called
NoMaps == [done |-> FALSE, panicked |-> FALSE, map |-> <<>>, inv |-> <<>>]

SchemaIdle ==
    /\ sarg = [kind |-> "list", t |-> [kind |-> "PassThrough"]]
    /\ built = NoSchema /\ fmaps = NoMaps /\ smw = 0 /\ spc = "idle"

ShlIdle ==
    /\ shl_v = <<>> /\ shl_k = 0 /\ shl_out = <<>> /\ shpc = "idle"

AssocIdle ==
    /\ ga = NoGlob /\ gb = NoGlob /\ gc = NoGlob
    /\ gleft = NoGlob /\ gright = NoGlob /\ apc = "idle"

InitGlob ==
    /\ glob \in ValidGlobs
    /\ prev = NoGlob
    /\ other = NoGlob
    /\ appends = 0
    /\ VieIdle /\ CoIdle /\ SerIdle /\ MarkerIdle /\ EncIdle /\ NewIdle /\ CompIdle
    /\ SchemaIdle /\ ShlIdle /\ AssocIdle

\* a.append(b)
AppendGlob(b) ==
    /\ appends < MaxAppends
    /\ glob' = GlobAppend(glob, b)
    /\ prev' = glob
    /\ other' = b
    /\ appends' = appends + 1
    /\ UNCHANGED notGlob

NextGlob == \E b \in ValidGlobs : AppendGlob(b)

SpecGlob == InitGlob /\ [][NextGlob]_vars

(***************************************************************************)
(* C1: after a.append(b), bit i of the result is bit i of the old a for     *)
(* 0 <= i < wa and bit (i - wa) of b for wa <= i < wa + wb, whether or not  *)
(* wa is a multiple of 8.                                                   *)
(***************************************************************************)
C1_AppendBitExact ==
    appends > 0 =>
        \A i \in 0..(prev.width + other.width - 1) :
            BitAt(glob.data, i) =
                IF i < prev.width THEN BitAt(prev.data, i)
                ELSE BitAt(other.data, i - prev.width)

\* an append at a width that is not a multiple of 8, of a glob of two bytes
\* whose bits cross into a further byte of the result
C1_Witness ==
    /\ appends > 0
    /\ prev.width % 8 = 3
    /\ other.width = 9
    /\ other.data = <<255, 1>>
    /\ glob.width = prev.width + 9

(***************************************************************************)
(* C2: after a.append(b), and after any sequence of appends, the width is   *)
(* the sum of the widths, the data holds ceil(width / 8) bytes, and every   *)
(* bit above the width in the last byte is zero.                            *)
(***************************************************************************)
C2_AppendPacking ==
    /\ appends > 0 => glob.width = prev.width + other.width
    /\ GlobInvariant(glob)

\* a second append, at a width that is not a multiple of 8, whose result
\* needs fewer bytes than the shifted data provides
C2_Witness ==
    /\ appends = 2
    /\ prev.width % 8 = 7
    /\ other.width = 1
    /\ other.data = <<1>>

(***************************************************************************)
(* int.rs: the fixed-width integer types.  A value of type I is held as its *)
(* little-endian bytes, I::WIDTH / 8 of them (two's complement for the      *)
(* signed types), which is what le_bytes returns and from_le_bytes reads.   *)
(***************************************************************************)
IntTypes == {"u8", "i8", "u16", "i16", "u32", "i32", "u64", "i64"}

WIDTH(I) ==
    CASE I \in {"u8", "i8"} -> 8
      [] I \in {"u16", "i16"} -> 16
      [] I \in {"u32", "i32"} -> 32
      [] I \in {"u64", "i64"} -> 64

Signed(I) == I \in {"i8", "i16", "i32", "i64"}

None == [some |-> FALSE, bytes |-> <<>>]
Some(bytes) == [some |-> TRUE, bytes |-> bytes]

\* LittleEndian::from_le_bytes: None unless the slice has exactly WIDTH / 8 bytes
from_le_bytes(I, bytes) ==
    IF Len(bytes) = WIDTH(I) \div 8 THEN Some(bytes) ELSE None

\* x == I::zero()
IsZero(bytes) == \A k \in DOMAIN bytes : bytes[k] = 0

\* the integer a value of an 8 or 16 bit type denotes
IntOf(I, bytes) ==
    LET u == IF Len(bytes) = 1 THEN bytes[1] ELSE bytes[1] + 256 * bytes[2]
    IN IF Signed(I) /\ u >= Pow2(WIDTH(I) - 1) THEN u - Pow2(WIDTH(I)) ELSE u

(***************************************************************************)
(* vie.rs                                                                   *)
(***************************************************************************)
\* <<x & 0x7f, x >> 7>>
split_high_bit(b) == <<AndByte(b, 127), b \div 128>>

\* Returns the lower n bits of b
borrow_lower(b, n) == AndByte(b, 255 \div Pow2(8 - n))

\* the cascade of u8_to_u7 over vec[j..]: each byte is shifted left by one and
\* takes the carry of the byte before it; returns <<vec, carry out>>
RECURSIVE Cascade(_, _, _)
Cascade(vec, j, carry_in) ==
    IF j > Len(vec) THEN <<vec, carry_in>>
    ELSE LET sc == shl_with_carry(vec[j], 1)
         IN Cascade([vec EXCEPT ![j] = OrByte(sc[1], carry_in)], j + 1, sc[2])

\* the outer loop of u8_to_u7 with a mutation: the carry out of the last byte
\* is never pushed
RECURSIVE U8ToU7LoopNoPush(_, _)
U8ToU7LoopNoPush(vec, i) ==
    IF i > Len(vec) THEN vec
    ELSE LET hb == split_high_bit(vec[i])
             c == Cascade([vec EXCEPT ![i] = hb[1]], i + 1, hb[2])
         IN U8ToU7LoopNoPush(c[1], i + 1)

\* the outer loop of u8_to_u7, i being the (1-based) position worked on
RECURSIVE U8ToU7Loop(_, _)
U8ToU7Loop(vec, i) ==
    IF i > Len(vec) THEN vec
    ELSE LET hb == split_high_bit(vec[i])
             c == Cascade([vec EXCEPT ![i] = hb[1]], i + 1, hb[2])
             pushed == IF c[2] = 1 THEN c[1] \o <<c[2]>> ELSE c[1]
         IN U8ToU7Loop(pushed, i + 1)

u8_to_u7_no_push(bytes) == U8ToU7LoopNoPush(bytes, 1)

u8_to_u7(bytes) == U8ToU7Loop(bytes, 1)

\* the loop of u7_to_u8; i is the (1-based) position, vec the result so far
RECURSIVE U7ToU8Loop(_, _, _, _)
U7ToU8Loop(u7_vec, i, borrow_amount, vec) ==
    IF i = Len(u7_vec) + 1 THEN vec
    ELSE IF i = Len(u7_vec) THEN vec \o <<u7_vec[i]>>
    ELSE IF borrow_amount = 7
         THEN U7ToU8Loop(u7_vec, i + 2, 1,
                         vec \o <<OrByte(u7_vec[i], (u7_vec[i + 1] * 2) % 256)>>)
         ELSE LET b == (borrow_lower(u7_vec[i + 1], borrow_amount)
                            * Pow2(8 - borrow_amount)) % 256
                  next == [u7_vec EXCEPT ![i + 1] = u7_vec[i + 1] \div Pow2(borrow_amount)]
              IN U7ToU8Loop(next, i + 1, borrow_amount + 1,
                            vec \o <<OrByte(u7_vec[i], b)>>)

u7_to_u8(u7_vec) == U7ToU8Loop(u7_vec, 1, 1, <<>>)

\* the trimming loop with a mutation: nothing is popped
TrimZerosKeepsAll(v, min_len) == v

\* pop trailing zero bytes while the vector is longer than min_len
RECURSIVE TrimZeros(_, _)
TrimZeros(v, min_len) ==
    IF Len(v) > min_len /\ v[Len(v)] = 0
    THEN TrimZeros(SubSeq(v, 1, Len(v) - 1), min_len)
    ELSE v

\* impl From<I> for CodePoint, x given as its le_bytes
CodePointFrom(xbytes) ==
    IF IsZero(xbytes) THEN <<0>>
    ELSE LET u7_vec == TrimZeros(u8_to_u7(xbytes), 0)
         IN [k \in 1..Len(u7_vec) |->
                IF k < Len(u7_vec) THEN OrByte(u7_vec[k], 128) ELSE u7_vec[k]]

\* CodePoint::decode::<I> with a mutation: a vector that is too long is cut
\* to the byte width instead of being rejected
CodePointDecodeCutting(bytes, I) ==
    LET u7_vec == [k \in 1..Len(bytes) |-> AndByte(bytes[k], 127)]
        byte_width == WIDTH(I) \div 8
        le_bytes == TrimZeros(u7_to_u8(u7_vec), byte_width)
        padded == le_bytes \o [k \in 1..(byte_width - Len(le_bytes)) |-> 0]
    IN from_le_bytes(I, SubSeq(padded, 1, byte_width))

\* CodePoint::decode::<I>
CodePointDecode(bytes, I) ==
    LET u7_vec == [k \in 1..Len(bytes) |-> AndByte(bytes[k], 127)]
        byte_width == WIDTH(I) \div 8
        le_bytes == TrimZeros(u7_to_u8(u7_vec), byte_width)
        padded == le_bytes \o [k \in 1..(byte_width - Len(le_bytes)) |-> 0]
    IN IF Len(le_bytes) > byte_width THEN None
       ELSE from_le_bytes(I, padded)

(***************************************************************************)
(* Inputs of the VIE operations: every value of the 8 bit types; for the    *)
(* wider types the values whose bytes are drawn from a few byte values,     *)
(* and for the 64 bit types also every value with a single bit set.         *)
(***************************************************************************)
ByteSamples16 == {0, 1, 127, 128, 131, 255}
ByteSamples32 == {0, 128, 255}
ByteSamples64 == {0, 255}

SingleBit(n, k) == [j \in 1..n |-> IF j = (k \div 8) + 1 THEN Pow2(k % 8) ELSE 0]

VieInputs(I) ==
    CASE WIDTH(I) = 8 -> {<<b>> : b \in 0..255}
      [] WIDTH(I) = 16 -> [1..2 -> ByteSamples16]
      [] WIDTH(I) = 32 -> [1..4 -> ByteSamples32]
      [] WIDTH(I) = 64 -> [1..8 -> ByteSamples64] \cup {SingleBit(8, k) : k \in 0..63}

(***************************************************************************)
(* Specification SpecVie: a value is encoded into a code point, which is    *)
(* then decoded into an integer type.                                       *)
(***************************************************************************)
InitVie ==
    /\ ty \in IntTypes
    /\ x \in VieInputs(ty)
    /\ cp = <<>>
    /\ dty = ty
    /\ decoded = None
    /\ vpc = "init"
    /\ GlobIdle /\ CoIdle /\ SerIdle /\ MarkerIdle /\ EncIdle /\ NewIdle /\ CompIdle
    /\ SchemaIdle /\ ShlIdle /\ AssocIdle

\* CodePoint::from(x)
Encode ==
    /\ vpc = "init"
    /\ cp' = CodePointFrom(x)
    /\ vpc' = "encoded"
    /\ UNCHANGED <<ty, x, dty, decoded>>
    /\ UNCHANGED notVie

\* cp.decode::<I>()
Decode(I) ==
    /\ vpc = "encoded"
    /\ dty' = I
    /\ decoded' = CodePointDecode(cp, I)
    /\ vpc' = "decoded"
    /\ UNCHANGED <<ty, x, cp>>
    /\ UNCHANGED notVie

NextVie ==
    \/ Encode
    \/ \E I \in IntTypes : Decode(I)

SpecVie == InitVie /\ [][NextVie]_vars

(***************************************************************************)
(* C3: for every integer type I and every value x of type I, decoding the   *)
(* code point of x as I returns Some(x).                                    *)
(***************************************************************************)
C3_VieRoundTrip ==
    (vpc = "decoded" /\ dty = ty) => decoded = Some(x)

\* -1 as an i64: a code point of ten bytes, decoded back to -1
C3_Witness ==
    /\ vpc = "decoded"
    /\ ty = "i64"
    /\ dty = "i64"
    /\ x = <<255, 255, 255, 255, 255, 255, 255, 255>>
    /\ Len(cp) = 10
    /\ decoded = Some(x)

FitsIn(xbytes, n) == \A k \in DOMAIN xbytes : k > n => xbytes[k] = 0

\* the first n bytes of xbytes, zero-extended
Resized(xbytes, n) == [k \in 1..n |-> IF k <= Len(xbytes) THEN xbytes[k] ELSE 0]

C13_Widening ==
    /\ vpc = "decoded"
    /\ ty = "u8"
    /\ x = <<255>>
    /\ dty = "u64"
    /\ decoded = Some(<<255, 0, 0, 0, 0, 0, 0, 0>>)

(***************************************************************************)
(* co.rs: Marker                                                            *)
(***************************************************************************)
Null == [tag |-> "Null", v |-> 0]
Record == [tag |-> "Record", v |-> 1]
List == [tag |-> "List", v |-> 2]
Element == [tag |-> "Element", v |-> 3]
Field(n) == [tag |-> "Field", v |-> n]

is_null(m) == m.tag = "Null"
is_record(m) == m.tag = "Record"
is_list(m) == m.tag = "List"
is_element(m) == m.tag = "Element"
is_field(m) == m.tag = "Field"

\* Marker::value panics for a Field holding a reserved value
MarkerValuePanics(m) == is_field(m) /\ m.v \in 0..3

\* Marker::value, where it does not panic
MarkerValue(m) == m.v

(***************************************************************************)
(* co.rs: Length, Block                                                     *)
(***************************************************************************)
\* the Length with a mutation: the width is counted in bytes
LengthInBytes(width) == CodePointFrom(LeBytes(div_ceil(width, 8), 8))

\* Length(CodePoint::from(width as u64)), held as the code point's bytes
LengthOf(width) == CodePointFrom(LeBytes(width, 8))

Header(m1, m2) == [kind |-> "Header", m1 |-> m1, m2 |-> m2]
Data(m, l, g) == [kind |-> "Data", m |-> m, l |-> l, g |-> g]
Terminator == [kind |-> "Terminator"]

(***************************************************************************)
(* co.rs: Validator                                                         *)
(***************************************************************************)
StInit == [s |-> "Init"]
StRoot(m) == [s |-> "Root", m |-> m]
StNested(m, previous) == [s |-> "Nested", m |-> m, previous |-> previous]
StEnd == [s |-> "End"]

\* the outcomes of advance_state; index is the validator's index afterwards
Ok(state, index) ==
    [ok |-> TRUE, state |-> state, index |-> index, err |-> "None", at |-> 0]
Err(err, at, index) ==
    [ok |-> FALSE, state |-> StEnd, index |-> index, err |-> err, at |-> at]

\* the marker test of the Data and Header arms, mutated: records want the
\* Element marker and lists a Field marker
WrongMarkerSwapped(scope_marker, m) ==
    \/ is_record(scope_marker) /\ ~ is_element(m)
    \/ is_list(scope_marker) /\ ~ is_field(m)

\* the marker test of the Data and Header arms of Root and Nested
WrongMarker(scope_marker, m) ==
    \/ is_record(scope_marker) /\ ~ is_field(m)
    \/ is_list(scope_marker) /\ ~ is_element(m)

\* the Data arm of Root(scope_marker) and of Nested(scope_marker, _); index
\* is self.index after consume_block
DataArm(state, scope_marker, b, index) ==
    IF WrongMarker(scope_marker, b.m) THEN Err("WrongMarkerType", index, index)
    ELSE LET d == CodePointDecode(b.l, "u64")
         IN IF ~ d.some THEN Err("Panic", index, index)
            ELSE IF d.bytes # LeBytes(b.g.width, 8)
                 THEN Err("LengthMismatch", index, index)
                 ELSE Ok(state, index)

\* the Header arm, mutated: the field marker is not tested
HeaderArmUnchecked(state, scope_marker, b, index) ==
    Ok(StNested(b.m1, state), index)

\* the Header arm of Root(scope_marker) and of Nested(scope_marker, _)
HeaderArm(state, scope_marker, b, index) ==
    IF WrongMarker(scope_marker, b.m2) THEN Err("WrongMarkerType", index, index)
    ELSE Ok(StNested(b.m1, state), index)

\* the Terminator arms, mutated: a Terminator in the root scope is accepted
TerminatorArmLenient(state, index) ==
    IF state.s = "Root" THEN Ok(state, index)
    ELSE Ok(state.previous, index)

\* the Terminator arms, mutated: a Terminator in a nested scope is consumed
\* and the scope is not left
TerminatorArmStays(state, index) ==
    IF state.s = "Root" THEN Err("UnexpectedTerminator", index, index)
    ELSE Ok(state, index)

\* the Terminator arms of Root and of Nested
TerminatorArm(state, index) ==
    IF state.s = "Root" THEN Err("UnexpectedTerminator", index, index)
    ELSE Ok(state.previous, index)

\* the Init arm, mutated: every first Header is taken as the root header
InitArmAnyHeader(b, index) ==
    IF b.kind = "Header" THEN Ok(StRoot(b.m1), index)
    ELSE Err("UnexpectedBlock", index - 1, index)

\* the Init arm: b is the consumed block, index is self.index after it
InitArm(b, index) ==
    IF b.kind = "Header" /\ is_null(b.m2)
    THEN IF ~ is_record(b.m1) /\ ~ is_list(b.m1)
         THEN Err("MalformedHeader", index - 1, index)
         ELSE Ok(StRoot(b.m1), index)
    ELSE IF b.kind = "Header" THEN Err("MalformedHeader", index - 1, index)
    ELSE Err("UnexpectedBlock", index - 1, index)

\* advance_state, mutated: the end of the blocks inside a nested scope is an error
advance_state_strict_end(state, index, bs) ==
    IF state.s = "End" THEN Ok(StEnd, index)
    ELSE IF index = Len(bs)
         THEN IF state.s = "Nested" THEN Err("UnterminatedScope", index, index)
              ELSE Ok(StEnd, index)
    ELSE LET b == bs[index + 1]
             next == index + 1
         IN IF state.s = "Init" THEN InitArm(b, next)
            ELSE IF b.kind = "Data" THEN DataArm(state, state.m, b, next)
            ELSE IF b.kind = "Header" THEN HeaderArm(state, state.m, b, next)
            ELSE TerminatorArm(state, next)

\* Validator::advance_state with consume_block; index counts from 0
advance_state(state, index, bs) ==
    IF state.s = "End" THEN Ok(StEnd, index)
    ELSE IF index = Len(bs) THEN Ok(StEnd, index)
    ELSE LET b == bs[index + 1]
             next == index + 1
         IN IF state.s = "Init" THEN InitArm(b, next)
            ELSE IF b.kind = "Data" THEN DataArm(state, state.m, b, next)
            ELSE IF b.kind = "Header" THEN HeaderArm(state, state.m, b, next)
            ELSE TerminatorArm(state, next)

\* the result of validate()
ValidOk == [ok |-> TRUE, err |-> "None", index |-> 0]
ValidErr(err, at) == [ok |-> FALSE, err |-> err, index |-> at]
NoResult == [ok |-> FALSE, err |-> "NotRun", index |-> 0]

\* the loop of Validator::run, mutated: an error does not stop the loop, the
\* last error met is returned
RECURSIVE RunLoopLastError(_, _, _)
RunLoopLastError(state, index, bs) ==
    LET r == advance_state(state, index, bs)
    IN IF r.ok /\ r.state = StEnd THEN ValidOk
       ELSE IF r.ok THEN RunLoopLastError(r.state, r.index, bs)
       ELSE LET rest == RunLoopLastError(state, r.index, bs)
            IN IF rest.ok THEN ValidErr(r.err, r.at) ELSE rest

\* the loop of Validator::run
RECURSIVE RunLoop(_, _, _)
RunLoop(state, index, bs) ==
    LET r == advance_state(state, index, bs)
    IN IF ~ r.ok THEN ValidErr(r.err, r.at)
       ELSE IF r.state = StEnd THEN ValidOk
       ELSE RunLoop(r.state, r.index, bs)

\* CompressedObject::validate
Validate(bs) == RunLoop(StInit, 0, bs)

\* the number of times the loop of Validator::run calls advance_state
RECURSIVE RunSteps(_, _, _)
RunSteps(state, index, bs) ==
    LET r == advance_state(state, index, bs)
    IN IF ~ r.ok \/ r.state = StEnd THEN 1
       ELSE 1 + RunSteps(r.state, r.index, bs)

(***************************************************************************)
(* co.rs: CompressedObject                                                  *)
(***************************************************************************)
new == <<>>
new_record == <<Header(Record, Null)>>
new_list == <<Header(List, Null)>>

push(bs, block) == Append(bs, block)

\* the marker test of the builder, mutated: only Null is refused
BuilderPanicsOnNull(field) == is_null(field)

\* begin_nested_record, begin_nested_list and push_data panic on these markers
BuilderPanics(field) == ~ is_field(field) /\ ~ is_element(field)

begin_nested_record(bs, field) == push(bs, Header(Record, field))
begin_nested_list(bs, field) == push(bs, Header(List, field))
end_nested_object(bs) == push(bs, Terminator)
push_data(bs, field, g) == push(bs, Data(field, LengthOf(g.width), g))

(***************************************************************************)
(* The scopes a block sequence opens, as the data model defines them: the   *)
(* root header opens the root scope, a later header opens a nested scope,   *)
(* a terminator closes the innermost nested scope.  The result is the       *)
(* sequence of the open scopes' container markers, the innermost last.      *)
(***************************************************************************)
RECURSIVE ScopesFrom(_, _, _)
ScopesFrom(bs, i, stack) ==
    IF i > Len(bs) THEN stack
    ELSE IF bs[i].kind = "Header" THEN ScopesFrom(bs, i + 1, Append(stack, bs[i].m1))
    ELSE IF bs[i].kind = "Terminator" /\ Len(stack) > 1
         THEN ScopesFrom(bs, i + 1, SubSeq(stack, 1, Len(stack) - 1))
    ELSE ScopesFrom(bs, i + 1, stack)

Scopes(bs) == ScopesFrom(bs, 1, <<>>)

\* the container marker of the innermost open scope
Innermost(bs) == Scopes(bs)[Len(Scopes(bs))]

\* the marker m is the one the scope of container marker c asks for
Matches(c, m) ==
    \/ is_record(c) /\ is_field(m)
    \/ is_list(c) /\ is_element(m)

(***************************************************************************)
(* Inputs of the CO operations.                                             *)
(***************************************************************************)
CoMarkers == {Null, Record, List, Element, Field(4)}
CoFieldMarkers == {Null, Element, Field(4)}
\* a glob of 130 bits, whose width takes two bytes of VIE
WideGlob == GlobNew(130, [k \in 1..17 |-> IF k = 17 THEN 3 ELSE 255])
CoGlobs == {GlobNew(7, <<113>>), WideGlob}
CoLengths(g) == {LengthOf(g.width), LengthOf(g.width + 1)}

CoBlocks ==
    {Header(m1, m2) : <<m1, m2>> \in CoMarkers \X CoFieldMarkers}
    \cup {Data(p[1], p[3], p[2]) : p \in
            {q \in CoFieldMarkers \X CoGlobs \X UNION {CoLengths(g) : g \in CoGlobs} :
                q[3] \in CoLengths(q[2])}}
    \cup {Terminator}

(***************************************************************************)
(* Specification SpecCO: a compressed object is constructed, validated      *)
(* after every operation, and extended while it validates.                  *)
(***************************************************************************)
InitCO ==
    /\ blocks \in {new, new_record, new_list}
    /\ result = NoResult
    /\ cpc = "build"
    /\ wellFormed = (blocks # new)
    /\ viaBuilder = (blocks # new)
    /\ lastOp = NoOp
    /\ prevBlocks = <<>>
    /\ GlobIdle /\ VieIdle /\ SerIdle /\ MarkerIdle /\ EncIdle /\ NewIdle /\ CompIdle
    /\ SchemaIdle /\ ShlIdle /\ AssocIdle

CanExtend == cpc = "validated" /\ result.ok /\ Len(blocks) < MaxBlocks

\* co.validate(), on a new object state or once more on a validated one
RunValidate ==
    /\ cpc \in {"build", "validated"}
    /\ result' = Validate(blocks)
    /\ cpc' = "validated"
    /\ UNCHANGED <<blocks, wellFormed, coHist>>
    /\ UNCHANGED notCo

\* the operation applied last, with its arguments and the blocks before it
Op(op, m, g) == [op |-> op, m |-> m, g |-> g]

\* co.push(block)
Push(block) ==
    /\ CanExtend
    /\ blocks' = push(blocks, block)
    /\ wellFormed' = FALSE
    /\ viaBuilder' = FALSE
    /\ lastOp' = Op("push", Null, NoGlob)
    /\ prevBlocks' = blocks
    /\ cpc' = "build"
    /\ result' = NoResult
    /\ UNCHANGED notCo

\* a call of begin_nested_record, begin_nested_list or push_data that
\* panics: the object is left as it was
BuilderPanic(field) ==
    /\ CanExtend
    /\ BuilderPanics(field)
    /\ cpc' = "panicked"
    /\ \E op \in {"begin_nested_record", "begin_nested_list", "push_data"} :
           lastOp' = Op(op, field, NoGlob)
    /\ prevBlocks' = blocks
    /\ UNCHANGED <<blocks, result, wellFormed, viaBuilder>>
    /\ UNCHANGED notCo

\* co.begin_nested_record(field)
BeginNestedRecord(field) ==
    /\ CanExtend
    /\ ~ BuilderPanics(field)
    /\ blocks' = begin_nested_record(blocks, field)
    /\ wellFormed' = (wellFormed /\ Matches(Innermost(blocks), field))
    /\ lastOp' = Op("begin_nested_record", field, NoGlob)
    /\ prevBlocks' = blocks
    /\ UNCHANGED viaBuilder
    /\ cpc' = "build"
    /\ result' = NoResult
    /\ UNCHANGED notCo

\* co.begin_nested_list(field)
BeginNestedList(field) ==
    /\ CanExtend
    /\ ~ BuilderPanics(field)
    /\ blocks' = begin_nested_list(blocks, field)
    /\ wellFormed' = (wellFormed /\ Matches(Innermost(blocks), field))
    /\ lastOp' = Op("begin_nested_list", field, NoGlob)
    /\ prevBlocks' = blocks
    /\ UNCHANGED viaBuilder
    /\ cpc' = "build"
    /\ result' = NoResult
    /\ UNCHANGED notCo

\* co.end_nested_object()
EndNestedObject ==
    /\ CanExtend
    /\ blocks' = end_nested_object(blocks)
    /\ wellFormed' = (wellFormed /\ Len(Scopes(blocks)) > 1)
    /\ lastOp' = Op("end_nested_object", Null, NoGlob)
    /\ prevBlocks' = blocks
    /\ UNCHANGED viaBuilder
    /\ cpc' = "build"
    /\ result' = NoResult
    /\ UNCHANGED notCo

\* co.push_data(field, g)
PushData(field, g) ==
    /\ CanExtend
    /\ ~ BuilderPanics(field)
    /\ blocks' = push_data(blocks, field, g)
    /\ wellFormed' = (wellFormed /\ Matches(Innermost(blocks), field))
    /\ lastOp' = Op("push_data", field, g)
    /\ prevBlocks' = blocks
    /\ UNCHANGED viaBuilder
    /\ cpc' = "build"
    /\ result' = NoResult
    /\ UNCHANGED notCo

NextCO ==
    \/ RunValidate
    \/ \E b \in CoBlocks : Push(b)
    \/ \E m \in CoMarkers : BuilderPanic(m)
    \/ \E m \in CoMarkers : BeginNestedRecord(m)
    \/ \E m \in CoMarkers : BeginNestedList(m)
    \/ EndNestedObject
    \/ \E m \in CoMarkers, g \in CoGlobs : PushData(m, g)

SpecCO == InitCO /\ [][NextCO]_vars

\* the last block of the object and the blocks before it
LastBlock == blocks[Len(blocks)]
Before == SubSeq(blocks, 1, Len(blocks) - 1)

(***************************************************************************)
(* C4: an object made by new_record or new_list and extended by push_data,  *)
(* begin_nested_record, begin_nested_list and end_nested_object, every      *)
(* marker matching the innermost open scope and end_nested_object called    *)
(* only inside a nested scope, validates after every call.                  *)
(***************************************************************************)
C4_WellFormedValidates ==
    (cpc = "validated" /\ wellFormed) => result = ValidOk

\* a record in a list in a record root, with a field in it
C4_Witness ==
    /\ cpc = "validated"
    /\ wellFormed
    /\ Len(blocks) = 4
    /\ Len(Scopes(blocks)) = 3
    /\ LastBlock.kind = "Data"
    /\ result = ValidOk

(***************************************************************************)
(* C5: when the blocks before it validate, a Data block or a nested Header  *)
(* whose field marker does not match the enclosing record or list scope     *)
(* (root or nested) makes validate return WrongMarkerType.                  *)
(***************************************************************************)
FieldMarkerOf(b) == IF b.kind = "Data" THEN b.m ELSE b.m2

C5_MismatchRejected ==
    (/\ cpc = "validated"
     /\ Len(blocks) >= 2
     /\ Validate(Before).ok
     /\ LastBlock.kind \in {"Data", "Header"}
     /\ Innermost(Before) \in {Record, List}
     /\ ~ Matches(Innermost(Before), FieldMarkerOf(LastBlock)))
    => (~ result.ok /\ result.err = "WrongMarkerType")

\* a record header carrying a Field marker inside a nested list
C5_Witness ==
    /\ cpc = "validated"
    /\ Len(blocks) = 3
    /\ Len(Scopes(Before)) = 2
    /\ Innermost(Before) = List
    /\ LastBlock = Header(Record, Field(4))
    /\ result.err = "WrongMarkerType"

(***************************************************************************)
(* C6: when the blocks before it validate, a Terminator consumed in the     *)
(* root scope, no nested scope being open, makes validate return            *)
(* UnexpectedTerminator, also after nested scopes were opened and closed;   *)
(* a Terminator consumed inside a nested scope is no error.                 *)
(***************************************************************************)
C6_StrayTerminator ==
    (/\ cpc = "validated"
     /\ Len(blocks) >= 2
     /\ Validate(Before).ok
     /\ LastBlock = Terminator)
    => IF Len(Scopes(Before)) = 1
       THEN ~ result.ok /\ result.err = "UnexpectedTerminator"
       ELSE result = ValidOk

\* a nested scope opened and closed, then a second Terminator
C6_Witness ==
    /\ cpc = "validated"
    /\ Len(blocks) = 4
    /\ blocks[2].kind = "Header"
    /\ blocks[3] = Terminator
    /\ blocks[4] = Terminator
    /\ result.err = "UnexpectedTerminator"

(***************************************************************************)
(* C7: validate returns Ok only if every Header block, root or nested, has  *)
(* Record or List as its first marker.                                      *)
(***************************************************************************)
C7_HeaderTypesChecked ==
    (cpc = "validated" /\ result.ok) =>
        \A i \in DOMAIN blocks :
            blocks[i].kind = "Header" => blocks[i].m1 \in {Record, List}

(***************************************************************************)
(* C14: push_data(m, G) appends exactly one block Data(m, L, G) whose       *)
(* Length decodes, as a u64, to G.width; so in an object made by new_record *)
(* or new_list and extended only by push_data, begin_nested_record,         *)
(* begin_nested_list and end_nested_object every Data block has a Length    *)
(* that decodes to its glob's width, and validate never reports             *)
(* LengthMismatch.                                                          *)
(***************************************************************************)
LengthDecodes(b) == CodePointDecode(b.l, "u64") = Some(LeBytes(b.g.width, 8))

C14_LengthCoherence ==
    /\ (lastOp.op = "push_data" /\ cpc # "panicked") =>
          /\ blocks = Append(prevBlocks, LastBlock)
          /\ LastBlock.kind = "Data"
          /\ LastBlock.m = lastOp.m
          /\ LastBlock.g = lastOp.g
          /\ LengthDecodes(LastBlock)
    /\ viaBuilder =>
          \A i \in DOMAIN blocks : blocks[i].kind = "Data" => LengthDecodes(blocks[i])
    /\ (viaBuilder /\ cpc = "validated") => result.err # "LengthMismatch"

\* a glob of 130 bits pushed into a record: its Length is the two bytes of
\* the code point of 130
C14_Witness ==
    /\ viaBuilder
    /\ cpc = "validated"
    /\ lastOp = Op("push_data", Field(4), WideGlob)
    /\ LastBlock = Data(Field(4), <<130, 1>>, WideGlob)
    /\ result = ValidOk

\* what the validator does with a Length that does not decode to the width
C14_MismatchReported ==
    (/\ cpc = "validated"
     /\ Len(blocks) >= 2
     /\ LastBlock.kind = "Data"
     /\ Matches(Innermost(Before), LastBlock.m)
     /\ ~ LengthDecodes(LastBlock))
    => result.err = "LengthMismatch"

(***************************************************************************)
(* C15: from the Init state a first block Header(m, Null) with m Record or  *)
(* List moves the validator to Root(m); a first Header with a second marker *)
(* other than Null, or with a first marker that is neither Record nor List, *)
(* gives MalformedHeader; a first block that is Data or Terminator gives    *)
(* UnexpectedBlock.                                                         *)
(***************************************************************************)
C15_FirstBlockRule ==
    (cpc = "validated" /\ Len(blocks) >= 1) =>
        LET b == blocks[1]
        IN IF b.kind = "Header" /\ b.m2 = Null /\ b.m1 \in {Record, List}
           THEN /\ advance_state(StInit, 0, blocks) = Ok(StRoot(b.m1), 1)
                /\ result.err \notin {"MalformedHeader", "UnexpectedBlock"}
                /\ Len(blocks) = 1 => result = ValidOk
           ELSE IF b.kind = "Header"
                THEN ~ result.ok /\ result.err = "MalformedHeader"
                ELSE ~ result.ok /\ result.err = "UnexpectedBlock"

\* a first header of type Element
C15_Witness ==
    /\ cpc = "validated"
    /\ blocks = <<Header(Element, Null)>>
    /\ result.err = "MalformedHeader"

(***************************************************************************)
(* C16: begin_nested_record(m), begin_nested_list(m) and push_data(m, g)    *)
(* fail for every m that is Null, Record or List and then append no block;  *)
(* for every m that is a Field or Element they append exactly one block,    *)
(* Header(Record, m), Header(List, m) or Data(m, L, g), at the end, and     *)
(* leave the earlier blocks as they were.                                   *)
(***************************************************************************)
\* the block the operation op appends
BlockOf(op) ==
    CASE op.op = "begin_nested_record" -> Header(Record, op.m)
      [] op.op = "begin_nested_list" -> Header(List, op.m)
      [] OTHER -> Data(op.m, LengthOf(op.g.width), op.g)

C16_BuilderMarkerChecks ==
    lastOp.op \in {"begin_nested_record", "begin_nested_list", "push_data"} =>
        IF lastOp.m.tag \in {"Null", "Record", "List"}
        THEN cpc = "panicked" /\ blocks = prevBlocks
        ELSE cpc # "panicked" /\ blocks = Append(prevBlocks, BlockOf(lastOp))

\* push_data with the List marker on an object of two blocks
C16_Witness ==
    /\ cpc = "panicked"
    /\ lastOp.op = "push_data"
    /\ lastOp.m = List
    /\ Len(prevBlocks) = 2
    /\ blocks = prevBlocks

\* begin_nested_list with the Element marker inside a list
C16_Appended ==
    /\ lastOp = Op("begin_nested_list", Element, NoGlob)
    /\ Len(prevBlocks) = 2
    /\ blocks = Append(prevBlocks, Header(List, Element))

(***************************************************************************)
(* C17: every error returned by validate carries the zero-based index of    *)
(* the offending block, the block whose consumption caused the error,       *)
(* whether it is raised in the Init state or in a Root or Nested state.     *)
(***************************************************************************)
\* the zero-based index of the first block whose prefix does not validate
OffendingIndex ==
    CHOOSE k \in 0..(Len(blocks) - 1) :
        /\ ~ Validate(SubSeq(blocks, 1, k + 1)).ok
        /\ \A j \in 0..(k - 1) : Validate(SubSeq(blocks, 1, j + 1)).ok

C17_ErrorPosition ==
    (cpc = "validated" /\ ~ result.ok) => result.index = OffendingIndex

\* the errors of the Init state carry the index of the first block
C17_InitErrorPosition ==
    (cpc = "validated" /\ result.err \in {"MalformedHeader", "UnexpectedBlock"}) =>
        result.index = 0 /\ OffendingIndex = 0

\* the errors of the Root and Nested states carry the index after the block
C17_LaterErrorPosition ==
    (cpc = "validated"
     /\ result.err \in {"WrongMarkerType", "LengthMismatch", "UnexpectedTerminator"}) =>
        result.index = OffendingIndex + 1

(***************************************************************************)
(* co.rs: serialization                                                     *)
(***************************************************************************)
\* Marker::into_glob panics: value() on a reserved Field, or Glob::new
MarkerIntoGlobPanics(m, width) ==
    MarkerValuePanics(m) \/ GlobNewPanics(width, LeBytes(MarkerValue(m), 4))

\* Marker::into_glob: Glob::new(width, value().to_le_bytes())
MarkerIntoGlob(m, width) == GlobNew(width, LeBytes(MarkerValue(m), 4))

\* Length::into_glob
LengthIntoGlob(l) == GlobNew(Len(l) * 8, l)

\* Block::into_glob panics
BlockIntoGlobPanics(b, width) ==
    CASE b.kind = "Header" ->
            MarkerIntoGlobPanics(b.m1, width) \/ MarkerIntoGlobPanics(b.m2, width)
      [] b.kind = "Data" -> MarkerIntoGlobPanics(b.m, width)
      [] OTHER -> MarkerIntoGlobPanics(Null, width)

\* Block::into_glob
BlockIntoGlob(b, width) ==
    CASE b.kind = "Header" ->
            GlobAppend(MarkerIntoGlob(b.m1, width), MarkerIntoGlob(b.m2, width))
      [] b.kind = "Data" ->
            GlobAppend(GlobAppend(MarkerIntoGlob(b.m, width), LengthIntoGlob(b.l)), b.g)
      [] OTHER -> MarkerIntoGlob(Null, width)

\* the fold of into_bytes over bs[i..], acc being the glob packed so far
RECURSIVE IntoBytesFold(_, _, _, _)
IntoBytesFold(bs, i, acc, width) ==
    IF i > Len(bs) THEN acc
    ELSE IntoBytesFold(bs, i + 1, GlobAppend(acc, BlockIntoGlob(bs[i], width)), width)

\* CompressedObject::into_bytes panics
IntoBytesPanics(bs, width) ==
    \E i \in DOMAIN bs : BlockIntoGlobPanics(bs[i], width)

\* CompressedObject::into_bytes
into_bytes(bs, width) ==
    IF bs = <<>> THEN <<>>
    ELSE IntoBytesFold(bs, 2, BlockIntoGlob(bs[1], width), width).data

(***************************************************************************)
(* The wire format, as a sequence of bits (each 0 or 1), first bit first.   *)
(***************************************************************************)
\* the low width bits of the natural v, least significant first
ValueBits(v, width) == [i \in 1..width |-> BitAt(LeBytes(v, 4), i - 1)]

\* the bits of a byte vector, each byte least significant bit first
ByteBits(data) == [i \in 1..(8 * Len(data)) |-> BitAt(data, i - 1)]

\* the width bits of a glob
GlobBits(g) == [i \in 1..g.width |-> BitAt(g.data, i - 1)]

BlockBits(b, width) ==
    CASE b.kind = "Header" -> ValueBits(b.m1.v, width) \o ValueBits(b.m2.v, width)
      [] b.kind = "Data" -> ValueBits(b.m.v, width) \o ByteBits(b.l) \o GlobBits(b.g)
      [] OTHER -> [i \in 1..width |-> 0]

RECURSIVE WireBits(_, _, _)
WireBits(bs, i, width) ==
    IF i > Len(bs) THEN <<>>
    ELSE BlockBits(bs[i], width) \o WireBits(bs, i + 1, width)

\* bits packed into ceil(n / 8) bytes, bit i into byte i div 8 at position
\* i mod 8, the unused positions of the last byte zero
PackBits(bits) ==
    [k \in 1..div_ceil(Len(bits), 8) |->
        LET f[j \in 0..8] ==
                IF j = 8 THEN 0
                ELSE (IF 8 * (k - 1) + j + 1 <= Len(bits)
                      THEN bits[8 * (k - 1) + j + 1] * Pow2(j) ELSE 0) + f[j + 1]
        IN f[0]]

\* the markers of a block
MarkersOf(b) ==
    CASE b.kind = "Header" -> {b.m1, b.m2}
      [] b.kind = "Data" -> {b.m}
      [] OTHER -> {Null}

(***************************************************************************)
(* Inputs of serialization.  The globs come from Glob::new; the last one    *)
(* is made from a byte with bits set above its width.                       *)
(***************************************************************************)
\* Field(2) holds a reserved value
SerMarkers == {Element, Field(2), Field(4), Field(5)}
SerGlobs == {GlobNew(16, <<255, 255>>), GlobNew(7, <<113>>), GlobNew(3, <<255>>)}

(***************************************************************************)
(* Specification SpecSer: a compressed object is built through the builder  *)
(* and then serialized by into_bytes, which consumes it.                    *)
(***************************************************************************)
InitSer ==
    /\ blocks \in {new, new_record, new_list}
    /\ result = NoResult
    /\ cpc = "build"
    /\ wellFormed = FALSE
    /\ viaBuilder = FALSE /\ lastOp = NoOp /\ prevBlocks = <<>>
    /\ marker_width = 0
    /\ out_bytes = <<>>
    /\ GlobIdle /\ VieIdle /\ MarkerIdle /\ EncIdle /\ NewIdle /\ CompIdle
    /\ SchemaIdle /\ ShlIdle /\ AssocIdle

CanGrow == cpc = "build" /\ Len(blocks) < MaxSerBlocks

SerBeginNestedRecord(field) ==
    /\ CanGrow
    /\ blocks' = begin_nested_record(blocks, field)
    /\ UNCHANGED <<result, cpc, wellFormed, coHist, serVars, notSer>>

SerBeginNestedList(field) ==
    /\ CanGrow
    /\ blocks' = begin_nested_list(blocks, field)
    /\ UNCHANGED <<result, cpc, wellFormed, coHist, serVars, notSer>>

SerEndNestedObject ==
    /\ CanGrow
    /\ blocks' = end_nested_object(blocks)
    /\ UNCHANGED <<result, cpc, wellFormed, coHist, serVars, notSer>>

SerPushData(field, g) ==
    /\ CanGrow
    /\ blocks' = push_data(blocks, field, g)
    /\ UNCHANGED <<result, cpc, wellFormed, coHist, serVars, notSer>>

\* co.validate() on the object that was built
SerValidate ==
    /\ cpc = "build"
    /\ result' = Validate(blocks)
    /\ cpc' = "checked"
    /\ UNCHANGED <<blocks, wellFormed, coHist, serVars, notSer>>

\* co.into_bytes(width), of an object that was validated or was not
IntoBytes(width) ==
    /\ cpc \in {"build", "checked"}
    /\ marker_width' = width
    /\ IF IntoBytesPanics(blocks, width)
       THEN cpc' = "panicked" /\ out_bytes' = <<>>
       ELSE cpc' = "serialized" /\ out_bytes' = into_bytes(blocks, width)
    /\ UNCHANGED <<blocks, result, wellFormed, coHist, notSer>>

NextSer ==
    \/ \E m \in SerMarkers : SerBeginNestedRecord(m)
    \/ \E m \in SerMarkers : SerBeginNestedList(m)
    \/ SerEndNestedObject
    \/ \E m \in SerMarkers, g \in SerGlobs : SerPushData(m, g)
    \/ SerValidate
    \/ \E w \in 1..MaxSerWidth : IntoBytes(w)

SpecSer == InitSer /\ [][NextSer]_vars

\* every marker value of the object is below 2^marker_width
MarkersFit ==
    \A i \in DOMAIN blocks : \A m \in MarkersOf(blocks[i]) : m.v < Pow2(marker_width)

(***************************************************************************)
(* C8: for a non-empty object whose marker values are below 2^W,            *)
(* into_bytes(W) is the concatenation of the block encodings (markers of W  *)
(* bits, the VIE bytes of the glob width, the glob's bits) packed least     *)
(* significant bit first into ceil(bits / 8) bytes, the unused bits of the  *)
(* last byte zero; an empty object gives no bytes.                          *)
(***************************************************************************)
C8_WireFormat ==
    (cpc = "serialized" /\ MarkersFit) =>
        out_bytes = PackBits(WireBits(blocks, 1, marker_width))

\* the same, for objects whose payload globs satisfy the Glob invariants
C8_WireFormatOfValidGlobs ==
    (/\ cpc = "serialized"
     /\ MarkersFit
     /\ \A i \in DOMAIN blocks : blocks[i].kind = "Data" => GlobInvariant(blocks[i].g))
    => out_bytes = PackBits(WireBits(blocks, 1, marker_width))

\* the record of the example: two fields, marker width 3, seven bytes
C8_Example ==
    /\ cpc = "serialized"
    /\ marker_width = 3
    /\ blocks = <<Header(Record, Null),
                  Data(Field(4), <<16>>, Glob(16, <<255, 255>>)),
                  Data(Field(5), <<7>>, Glob(7, <<113>>))>>
    /\ out_bytes = <<1, 33, 254, 255, 123, 16, 7>>

(***************************************************************************)
(* Specification SpecMarker: a marker is converted into a glob of a given   *)
(* width, and the glob of the block part that follows is appended to it.    *)
(***************************************************************************)
MarkerInputs ==
    {Null, Record, List, Element, Field(3), Field(4), Field(5), Field(13),
     Field(255), Field(256), Field(65541), Field(1073741831)}

\* the globs appended after a marker; each satisfies the Glob invariants
NextGlobs == {GlobNew(1, <<0>>), GlobNew(3, <<5>>), GlobNew(8, <<0>>), GlobNew(9, <<170, 0>>)}

InitMarker ==
    /\ marker \in MarkerInputs
    /\ marker_width \in 1..MarkerValueBits
    /\ mglob = NoGlob
    /\ appended = NoGlob
    /\ packed = NoGlob
    /\ mpc = "idle"
    /\ out_bytes = <<>>
    /\ GlobIdle /\ VieIdle /\ CoIdle /\ EncIdle /\ NewIdle /\ CompIdle
    /\ SchemaIdle /\ ShlIdle /\ AssocIdle

\* marker.into_glob(marker_width)
IntoGlob ==
    /\ mpc = "idle"
    /\ IF MarkerIntoGlobPanics(marker, marker_width)
       THEN mpc' = "panicked" /\ mglob' = mglob
       ELSE mpc' = "glob" /\ mglob' = MarkerIntoGlob(marker, marker_width)
    /\ UNCHANGED <<marker, marker_width, appended, packed, notMarker>>

\* glob.append(b) on the marker's glob, as Block::into_glob does
AppendNext(b) ==
    /\ mpc = "glob"
    /\ appended' = b
    /\ packed' = GlobAppend(mglob, b)
    /\ mpc' = "packed"
    /\ UNCHANGED <<marker, marker_width, mglob, notMarker>>

NextMarker ==
    \/ IntoGlob
    \/ \E b \in NextGlobs : AppendNext(b)

SpecMarker == InitMarker /\ [][NextMarker]_vars

(***************************************************************************)
(* C9: for every marker and width W in 1..32, into_glob(W) is a glob of     *)
(* width W whose bits are the low W bits of the marker's value; the bits of *)
(* the value at positions >= W are discarded and do not change the bits of  *)
(* the glob appended next.                                                  *)
(***************************************************************************)
C9_MarkerTruncation ==
    /\ mpc \in {"glob", "packed"} =>
        /\ mglob.width = marker_width
        /\ \A i \in 0..(marker_width - 1) :
               BitAt(mglob.data, i) = BitAt(LeBytes(MarkerValue(marker), 4), i)
        /\ \A i \in marker_width..(8 * Len(mglob.data) - 1) : BitAt(mglob.data, i) = 0
    /\ mpc = "packed" =>
        /\ packed.width = marker_width + appended.width
        /\ \A j \in 0..(appended.width - 1) :
               BitAt(packed.data, marker_width + j) = BitAt(appended.data, j)

\* the same, for marker values below 2^marker_width
C9_MarkerTruncationOfFittingValues ==
    (/\ mpc \in {"glob", "packed"}
     /\ \A i \in marker_width..(MarkerValueBits - 1) :
            BitAt(LeBytes(MarkerValue(marker), 4), i) = 0)
    => C9_MarkerTruncation

(***************************************************************************)
(* Schemas and JSON values.  A record type lists its fields in key order    *)
(* (a BTreeMap); a JSON object lists its members in key order.  Strings     *)
(* are byte sequences.                                                      *)
(***************************************************************************)
PassThrough == [kind |-> "PassThrough"]
Name(n) == [kind |-> "Name", name |-> n]
Enum(vs) == [kind |-> "Enum", variants |-> vs]
Nested(ct) == [kind |-> "Nested", ct |-> ct]
RecordType(fields) == [kind |-> "Record", fields |-> fields]
ListType(elem) == [kind |-> "List", elem |-> elem]
FieldType(key, t) == [key |-> key, t |-> t]

JBool(b) == [kind |-> "bool", b |-> b]
JStr(s) == [kind |-> "str", s |-> s]
JArr(items) == [kind |-> "arr", items |-> items]
JObj(members) == [kind |-> "obj", members |-> members]
Member(key, v) == [key |-> key, v |-> v]

\* the position of key among the fields of a record type, 0 if absent
KeyIndex(fields, key) ==
    IF \E i \in DOMAIN fields : fields[i].key = key
    THEN CHOOSE i \in DOMAIN fields : fields[i].key = key
    ELSE 0

(***************************************************************************)
(* math.rs: required_bit_width; schema.rs: field_map, marker_width          *)
(***************************************************************************)
\* n.next_power_of_two().trailing_zeros()
required_bit_width(n) == CHOOSE w \in 0..31 : Pow2(w) >= n /\ (w = 0 \/ Pow2(w - 1) < n)

\* Schema::field_map: the i-th key maps to i + NUM_RESERVED_KEYS
field_map(fields, key) == (KeyIndex(fields, key) - 1) + NUM_RESERVED_KEYS

\* Schema::marker_width
schema_marker_width(sch) ==
    required_bit_width(IF sch.kind = "Record"
                       THEN Len(sch.fields) + NUM_RESERVED_KEYS
                       ELSE NUM_RESERVED_KEYS)

\* Record::field_map and Record::field_width of the encoder's schema types
record_field_map(record, key) == field_map(record.fields, key)
record_field_width(record) == schema_marker_width(record)

(***************************************************************************)
(* data.rs: Field, Length, Block, CompressedObject                          *)
(***************************************************************************)
FieldNew(width, id) == [width |-> width, some |-> TRUE, id |-> id]
FieldNull(width) == [width |-> width, some |-> FALSE, id |-> 0]
NoField == [some |-> FALSE, f |-> FieldNull(0)]
SomeField(f) == [some |-> TRUE, f |-> f]

RecordHeader(f) == [kind |-> "RecordHeader", f |-> f]
ListHeader(f, len) == [kind |-> "ListHeader", f |-> f, len |-> len]
FixedWidthField(f, bits) == [kind |-> "FixedWidthField", f |-> f, bits |-> bits]
VariableWidthField(f, len, bits) ==
    [kind |-> "VariableWidthField", f |-> f, len |-> len, bits |-> bits]
FixedWidthElement(bits) == [kind |-> "FixedWidthElement", bits |-> bits]
VariableWidthElement(len, bits) ==
    [kind |-> "VariableWidthElement", len |-> len, bits |-> bits]
BlockTerminator(width) == [kind |-> "Terminator", width |-> width]

(***************************************************************************)
(* comp: the compressors the encoder selects                                *)
(***************************************************************************)
Done(co) == [done |-> TRUE, ok |-> TRUE, panicked |-> FALSE, err |-> "", co |-> co]
Fail(err, co) == [done |-> TRUE, ok |-> FALSE, panicked |-> FALSE, err |-> err, co |-> co]
Panic(co) == [done |-> TRUE, ok |-> FALSE, panicked |-> TRUE, err |-> "panic", co |-> co]

\* BitVec::from_bytes: each byte most significant bit first
BitVecFromBytes(data) ==
    [i \in 1..(8 * Len(data)) |-> BitOf(data[((i - 1) \div 8) + 1], 7 - ((i - 1) % 8))]

\* BitVec::from_rev_be(index) truncated to width bits: least significant first
RevBeBits(index, width) == [i \in 1..width |-> BitOf(index, i - 1)]

\* get_compressor_for_type fails for a name it does not know
CompressorUnknown(t) == t.kind = "Name" /\ t.name # "bool"

\* Compressor::encoded_width is Variable
EncodedWidthVariable(t) == t.kind = "PassThrough"

\* comp::Value::try_from fails on a JSON value that is no scalar
ValueTryFromFails(json) == json.kind \notin {"bool", "str"}

\* Compressor::compress, of the compressor of type t, fails
CompressFails(t, json) ==
    CASE t.kind = "PassThrough" -> json.kind # "str"
      [] t.kind = "Name" -> json.kind # "bool"
      [] OTHER -> json.kind # "str" \/ ~ \E i \in DOMAIN t.variants : t.variants[i] = json.s

\* Compressor::compress, where it succeeds
Compress(t, json) ==
    CASE t.kind = "PassThrough" -> BitVecFromBytes(json.s)
      [] t.kind = "Name" -> <<IF json.b THEN 1 ELSE 0>>
      [] OTHER ->
            RevBeBits((CHOOSE i \in DOMAIN t.variants : t.variants[i] = json.s) - 1,
                      required_bit_width(Len(t.variants)))

(***************************************************************************)
(* encode.rs                                                                *)
(***************************************************************************)
encode_element(t, co, json) ==
    IF CompressorUnknown(t) THEN Fail("cannot determine compressor", co)
    ELSE IF ValueTryFromFails(json) THEN Fail("unexpected type", co)
    ELSE IF CompressFails(t, json) THEN Fail("compress", co)
    ELSE LET bits == Compress(t, json)
         IN Done(Append(co, IF EncodedWidthVariable(t)
                            THEN VariableWidthElement(Len(bits), bits)
                            ELSE FixedWidthElement(bits)))

encode_field(field, t, co, json) ==
    IF CompressorUnknown(t) THEN Fail("cannot determine compressor", co)
    ELSE IF ValueTryFromFails(json) THEN Fail("unexpected type", co)
    ELSE IF CompressFails(t, json) THEN Fail("compress", co)
    ELSE LET bits == Compress(t, json)
         IN Done(Append(co, IF EncodedWidthVariable(t)
                            THEN VariableWidthField(field, Len(bits), bits)
                            ELSE FixedWidthField(field, bits)))

RECURSIVE encode_composite_type(_, _, _, _)
RECURSIVE encode_list(_, _, _, _)
RECURSIVE encode_record(_, _, _, _)
RECURSIVE EncodeListLoop(_, _, _, _)
RECURSIVE EncodeRecordLoop(_, _, _, _)

encode_composite_type(ct, field, co, json) ==
    IF ct.kind = "Record" THEN encode_record(ct, field, co, json)
    ELSE encode_list(ct, field, co, json)

\* the loop of encode_list over arr[i..]
EncodeListLoop(list, co, arr, i) ==
    IF i > Len(arr) THEN Done(co)
    ELSE LET r == IF list.elem.kind = "Nested"
                  THEN encode_composite_type(list.elem.ct, NoField, co, arr[i])
                  ELSE encode_element(list.elem, co, arr[i])
         IN IF r.ok THEN EncodeListLoop(list, r.co, arr, i + 1) ELSE r

encode_list(list, field, co, json) ==
    IF json.kind # "arr" THEN Fail("expected array", co)
    ELSE LET co1 == IF field.some
                    THEN Append(co, ListHeader(field.f, Len(json.items)))
                    ELSE co
         IN EncodeListLoop(list, co1, json.items, 1)

\* the loop of encode_record over members[i..]
EncodeRecordLoop(record, co, members, i) ==
    IF i > Len(members) THEN Done(co)
    ELSE LET k == members[i].key
             v == members[i].v
         IN IF KeyIndex(record.fields, k) = 0 THEN Fail("unexpected field", co)
            ELSE LET field == FieldNew(record_field_width(record), record_field_map(record, k))
                     t == record.fields[KeyIndex(record.fields, k)].t
                     r == IF t.kind = "Nested"
                          THEN encode_composite_type(t.ct, SomeField(field), co, v)
                          ELSE encode_field(field, t, co, v)
                 IN IF r.ok THEN EncodeRecordLoop(record, r.co, members, i + 1) ELSE r

encode_record(record, field, co, json) ==
    LET co1 == IF field.some THEN Append(co, RecordHeader(field.f)) ELSE co
    IN IF json.kind # "obj" THEN Fail("expected object", co1)
       ELSE LET r == EncodeRecordLoop(record, co1, json.members, 1)
            IN IF r.ok /\ field.some
               THEN Done(Append(r.co, BlockTerminator(record_field_width(record))))
               ELSE r

\* encode(schema, value)
encode(sch, json) == encode_composite_type(sch, NoField, <<>>, json)

(***************************************************************************)
(* transcode.rs, over compress::{PassThroughCompressor, EnumCompressor}     *)
(***************************************************************************)
\* Type::compressor is None: compress::builtin knows no such name
NoCompressor(t) == t.kind = "Name" /\ t.name = "bool"

\* the width of the glob the compressor of type t makes of the string str
CompressedWidth(t, str) ==
    IF t.kind = "PassThrough" THEN Len(str) * 8
    ELSE required_bit_width(Len(t.variants))

\* the bytes the compressor of type t hands to Glob::new
CompressedBytes(t, str) ==
    IF t.kind = "PassThrough" THEN str
    ELSE LeBytes((CHOOSE i \in DOMAIN t.variants : t.variants[i] = str) - 1, 8)

\* the loop of compress_object over members[i..]
RECURSIVE CompressObjectLoop(_, _, _, _)
CompressObjectLoop(co, members, sch, i) ==
    IF i > Len(members) THEN Done(co)
    ELSE LET k == members[i].key
             v == members[i].v
         IN IF KeyIndex(sch.fields, k) = 0 THEN Fail("UnexpectedField", co)
            ELSE LET t == sch.fields[KeyIndex(sch.fields, k)].t
                 IN IF t.kind = "Nested" THEN Panic(co)
                    ELSE IF NoCompressor(t) THEN Fail("FailedToGetCompressor", co)
                    ELSE IF v.kind # "str" THEN Panic(co)
                    ELSE IF t.kind = "Enum"
                            /\ ~ \E j \in DOMAIN t.variants : t.variants[j] = v.s
                         THEN Fail("CompressionError", co)
                    ELSE IF GlobNewPanics(CompressedWidth(t, v.s), CompressedBytes(t, v.s))
                         THEN Panic(co)
                    ELSE CompressObjectLoop(
                             push_data(co, Field(field_map(sch.fields, k)),
                                       GlobNew(CompressedWidth(t, v.s), CompressedBytes(t, v.s))),
                             members, sch, i + 1)

compress_object(co, members, sch) ==
    IF sch.kind = "Record" THEN CompressObjectLoop(co, members, sch, 1)
    ELSE Fail("WrongValueType", co)

from_json(json, sch) ==
    IF json.kind = "obj" THEN compress_object(new_record, json.members, sch)
    ELSE IF json.kind = "arr" THEN Panic(<<>>)
    ELSE Fail("WrongValueType", <<>>)

(***************************************************************************)
(* Inputs of the encoder: schemas with record and list roots and nested     *)
(* records and lists, and for each schema the values it accepts (every      *)
(* field present or absent, lists of up to MaxListLen elements), together   *)
(* with a few values the schema does not accept.                            *)
(***************************************************************************)
KeyA == "a"
KeyB == "b"
StrHi == <<104, 105>>
StrUp == <<85, 80>>
StrDown == <<68, 79, 87, 78>>
BoolType == Name("bool")

EncSchemas ==
    {RecordType(<<FieldType(KeyA, BoolType)>>),
     RecordType(<<FieldType(KeyA, BoolType), FieldType(KeyB, PassThrough)>>),
     RecordType(<<FieldType(KeyA, Enum(<<StrUp, StrDown>>)), FieldType(KeyB, PassThrough)>>),
     RecordType(<<FieldType(KeyA, Nested(RecordType(<<FieldType(KeyA, BoolType)>>)))>>),
     RecordType(<<FieldType(KeyA, Nested(ListType(BoolType)))>>),
     RecordType(<<FieldType(KeyA,
         Nested(ListType(Nested(RecordType(<<FieldType(KeyA, BoolType)>>)))))>>),
     ListType(BoolType),
     ListType(PassThrough),
     ListType(Nested(RecordType(<<FieldType(KeyA, BoolType)>>)))}

RECURSIVE ValuesOfType(_)
RECURSIVE ValuesOfComposite(_)
RECURSIVE MembersOf(_, _)

\* the values a type accepts
ValuesOfType(t) ==
    CASE t.kind = "PassThrough" -> {JStr(<<>>), JStr(StrHi)}
      [] t.kind = "Name" -> {JBool(TRUE), JBool(FALSE)}
      [] t.kind = "Enum" -> {JStr(t.variants[i]) : i \in DOMAIN t.variants}
      [] OTHER -> ValuesOfComposite(t.ct)

\* the member lists of the objects a record with fields[i..] accepts
MembersOf(fields, i) ==
    IF i > Len(fields) THEN {<<>>}
    ELSE LET rest == MembersOf(fields, i + 1)
         IN rest \cup {<<Member(fields[i].key, v)>> \o r :
                           v \in ValuesOfType(fields[i].t), r \in rest}

\* the values a record or list type accepts
ValuesOfComposite(ct) ==
    IF ct.kind = "Record" THEN {JObj(ms) : ms \in MembersOf(ct.fields, 1)}
    ELSE {JArr(items) :
              items \in UNION {[1..n -> ValuesOfType(ct.elem)] : n \in 0..MaxListLen}}

\* values no schema above accepts
RejectedValues ==
    {JBool(TRUE), JObj(<<Member("z", JBool(TRUE))>>), JObj(<<Member(KeyA, JArr(<<JStr(StrHi)>>))>>),
     JArr(<<JObj(<<>>), JBool(TRUE)>>)}

Accepted(sch, json) == json \in ValuesOfComposite(sch)

(***************************************************************************)
(* Specification SpecEnc: a value is encoded against a schema, by encode    *)
(* and by from_json.                                                        *)
(***************************************************************************)
InitEnc ==
    /\ schema \in EncSchemas
    /\ value \in ValuesOfComposite(schema) \cup RejectedValues
    /\ enc = NotRun
    /\ tr = NotRun
    /\ GlobIdle /\ VieIdle /\ CoIdle /\ SerIdle /\ MarkerIdle /\ NewIdle /\ CompIdle
    /\ SchemaIdle /\ ShlIdle /\ AssocIdle

\* encode(&schema, &value)
EncodeValue ==
    /\ ~ enc.done
    /\ enc' = encode(schema, value)
    /\ UNCHANGED <<schema, value, tr, notEnc>>

\* transcode::from_json(&value, &schema)
FromJson ==
    /\ ~ tr.done
    /\ tr' = from_json(value, schema)
    /\ UNCHANGED <<schema, value, enc, notEnc>>

NextEnc == EncodeValue \/ FromJson

SpecEnc == InitEnc /\ [][NextEnc]_vars

(***************************************************************************)
(* The blocks of the encoder read as the blocks the validator checks: a     *)
(* header names its container and its field, a data block its field or      *)
(* Element; a field without an id is Null.                                  *)
(***************************************************************************)
BitsGlob(bits) == Glob(Len(bits), PackBits(bits))
FieldMarker(f) == IF f.some THEN Field(f.id) ELSE Null

AsBlock(b) ==
    CASE b.kind = "RecordHeader" -> Header(Record, FieldMarker(b.f))
      [] b.kind = "ListHeader" -> Header(List, FieldMarker(b.f))
      [] b.kind \in {"FixedWidthField", "VariableWidthField"} ->
            Data(FieldMarker(b.f), LengthOf(Len(b.bits)), BitsGlob(b.bits))
      [] b.kind \in {"FixedWidthElement", "VariableWidthElement"} ->
            Data(Element, LengthOf(Len(b.bits)), BitsGlob(b.bits))
      [] OTHER -> Terminator

AsBlocks(co) == [i \in DOMAIN co |-> AsBlock(co[i])]

RootHeader(sch) == Header(IF sch.kind = "Record" THEN Record ELSE List, Null)

\* an encoder's result begins with the root header of the schema and validates
WellFormedResult(r, bs) ==
    /\ r.ok
    /\ bs # <<>>
    /\ bs[1] = RootHeader(schema)
    /\ Validate(bs).ok

(***************************************************************************)
(* C10: for any schema (record or list root, with nested records and        *)
(* lists) and any value the schema accepts, the block sequence the encoder  *)
(* produces begins with the root Header and is accepted by the validator.   *)
(***************************************************************************)
C10_EncoderWellFormed ==
    Accepted(schema, value) =>
        /\ enc.done => WellFormedResult(enc, AsBlocks(enc.co))
        /\ tr.done => WellFormedResult(tr, tr.co)

\* from_json on the values it completes on: what it returns is well-formed
C10_FromJsonWellFormedWhereOk ==
    (tr.done /\ tr.ok) => WellFormedResult(tr, tr.co)

\* encode never pushes a root header: its first block, if any, is a data
\* block or the header of a nested field
C10_EncodeHasNoRootHeader ==
    (enc.done /\ enc.ok /\ enc.co # <<>>) => AsBlock(enc.co[1]) # RootHeader(schema)

(***************************************************************************)
(* Specification SpecNew: Glob::new is called on a width and a byte vector. *)
(***************************************************************************)
\* widest width passed to Glob::new
MaxNewWidth == 17
\* most bytes passed to Glob::new
MaxNewBytes == 3

NewBytes == {0, 1, 255}

NewData == UNION {[1..n -> NewBytes] : n \in 0..MaxNewBytes}

InitNew ==
    /\ new_width \in 0..MaxNewWidth
    /\ new_data \in NewData
    /\ new_glob = NoGlob
    /\ npc = "idle"
    /\ GlobIdle /\ VieIdle /\ CoIdle /\ SerIdle /\ MarkerIdle /\ EncIdle /\ CompIdle
    /\ SchemaIdle /\ ShlIdle /\ AssocIdle

\* Glob::new(new_width, new_data)
NewGlob ==
    /\ npc = "idle"
    /\ IF GlobNewPanics(new_width, new_data)
       THEN npc' = "panicked" /\ new_glob' = new_glob
       ELSE npc' = "made" /\ new_glob' = GlobNew(new_width, new_data)
    /\ UNCHANGED <<new_width, new_data, notNew>>

NextNew == NewGlob

SpecNew == InitNew /\ [][NextNew]_vars

(***************************************************************************)
(* C11: every glob returned by Glob::new(width, data) has width > 0,        *)
(* ceil(width / 8) bytes of data and no bit set at a position >= width; a   *)
(* call with width = 0, or with fewer bytes than hold width bits, aborts    *)
(* and returns no glob.                                                     *)
(***************************************************************************)
C11_GlobNewInvariant ==
    /\ npc = "made" => GlobInvariant(new_glob)
    /\ npc # "idle" =>
          (npc = "panicked" <=>
              (new_width = 0 \/ Len(new_data) < div_ceil(new_width, 8)))

\* what Glob::new does establish: the width is kept, no byte beyond
\* ceil(width / 8) is kept, and the bytes kept are those passed in
C11_GlobNewTruncates ==
    npc = "made" =>
        /\ new_glob.width = new_width /\ new_width > 0
        /\ Len(new_glob.data) <= div_ceil(new_width, 8)
        /\ new_glob.data = SubSeq(new_data, 1, Len(new_glob.data))

\* a glob made from bytes that hold bits above the width
C11_GarbageKept ==
    npc = "made" /\ new_width = 3 /\ new_data = <<255>> /\ new_glob = Glob(3, <<255>>)

\* a glob made from fewer bytes than hold its width
C11_ShortAccepted ==
    npc = "made" /\ new_width = 9 /\ new_data = <<1>> /\ new_glob = Glob(9, <<1>>)

(***************************************************************************)
(* The framing of nested composites: the kinds of the blocks that encode a  *)
(* value, a nested record as a header, its fields and a terminator, a       *)
(* nested list as a header, one group per element and a terminator, an      *)
(* element that is itself nested as a group with a header of its own.  The  *)
(* root composite is taken without header and terminator.                   *)
(***************************************************************************)
RECURSIVE FrameOfComposite(_, _, _)
RECURSIVE FrameOfMembers(_, _, _)
RECURSIVE FrameOfItems(_, _, _)

FrameOfComposite(ct, json, headed) ==
    IF ct.kind = "Record"
    THEN (IF headed THEN <<"RecordHeader">> ELSE <<>>)
         \o FrameOfMembers(ct, json.members, 1)
         \o (IF headed THEN <<"Terminator">> ELSE <<>>)
    ELSE (IF headed THEN <<"ListHeader">> ELSE <<>>)
         \o FrameOfItems(ct, json.items, 1)
         \o (IF headed THEN <<"Terminator">> ELSE <<>>)

FrameOfMembers(record, members, i) ==
    IF i > Len(members) THEN <<>>
    ELSE LET t == record.fields[KeyIndex(record.fields, members[i].key)].t
         IN (IF t.kind = "Nested" THEN FrameOfComposite(t.ct, members[i].v, TRUE)
             ELSE <<"Field">>)
            \o FrameOfMembers(record, members, i + 1)

FrameOfItems(list, items, i) ==
    IF i > Len(items) THEN <<>>
    ELSE (IF list.elem.kind = "Nested" THEN FrameOfComposite(list.elem.ct, items[i], TRUE)
          ELSE <<"Element">>)
         \o FrameOfItems(list, items, i + 1)

\* the kind of an encoder block, field and element blocks of either width alike
KindOf(b) ==
    CASE b.kind \in {"FixedWidthField", "VariableWidthField"} -> "Field"
      [] b.kind \in {"FixedWidthElement", "VariableWidthElement"} -> "Element"
      [] OTHER -> b.kind

Kinds(co) == [i \in DOMAIN co |-> KindOf(co[i])]

CountKind(co, kind) == Cardinality({i \in DOMAIN co : co[i].kind = kind})

(***************************************************************************)
(* C18: for a field that is a nested record the encoder emits a record      *)
(* header, the nested field blocks and a Terminator; for a field that is a  *)
(* nested list it emits a list header, one group per element (a header to   *)
(* Terminator group when the element type is nested, otherwise one Element  *)
(* data block) and a Terminator; so every nested header is matched by a     *)
(* later Terminator and no element of a list of records lacks its header.   *)
(***************************************************************************)
C18_NestedFraming ==
    (enc.done /\ Accepted(schema, value)) =>
        /\ enc.ok
        /\ Kinds(enc.co) = FrameOfComposite(schema, value, FALSE)
        /\ CountKind(enc.co, "RecordHeader") + CountKind(enc.co, "ListHeader")
               = CountKind(enc.co, "Terminator")

\* what encode_record does establish: a nested record field is framed by a
\* header and a Terminator
C18_RecordFieldsFramed ==
    (enc.done /\ enc.ok) =>
        CountKind(enc.co, "RecordHeader") = CountKind(enc.co, "Terminator")

\* a nested list field is encoded as its header and its elements, with no
\* Terminator after them
C18_ListFieldUnterminated ==
    (/\ enc.done /\ enc.ok
     /\ schema = RecordType(<<FieldType(KeyA, Nested(ListType(BoolType)))>>)
     /\ Accepted(schema, value)
     /\ Len(value.members) = 1)
    => Kinds(enc.co) = <<"ListHeader">> \o [i \in 1..Len(value.members[1].v.items) |-> "Element"]

(***************************************************************************)
(* compress/mod.rs, compress/enumeration.rs, compress/numerical.rs: the     *)
(* byte-level compressors.                                                  *)
(***************************************************************************)
\* most variants of an enumeration compressor
MaxVariants == 5
\* widest integer compressor
MaxIntWidth == 64

OkGlob(g) == [NoOutcome EXCEPT !.done = TRUE, !.ok = TRUE, !.g = g]
OkBytes(bs) == [NoOutcome EXCEPT !.done = TRUE, !.ok = TRUE, !.bytes = bs]
ErrOutcome(e) == [NoOutcome EXCEPT !.done = TRUE, !.err = e]
PanicOutcome == [NoOutcome EXCEPT !.done = TRUE, !.panicked = TRUE, !.err = "panic"]

\* Glob::new as the compressors call it
NewGlobOutcome(width, data) ==
    IF GlobNewPanics(width, data) THEN PanicOutcome ELSE OkGlob(GlobNew(width, data))

\* math::low_mask::<u8>(n), 1 <= n <= 8
low_mask(n) == 255 \div Pow2(8 - n)

\* integer::pad_with_zero(n, vec)
pad_with_zero(n, v) == v \o [k \in 1..(n - Len(v)) |-> 0]

\* PassThroughCompressor::compress
PassThroughCompress(input) == NewGlobOutcome(Len(input) * 8, input)

\* PassThroughCompressor::decompress
PassThroughDecompress(g) ==
    IF g.width % 8 # 0 THEN ErrOutcome("WrongGlobWidth") ELSE OkBytes(g.data)

\* Iterator::position: the 1-based place of the first variant equal to input, 0 if none
Position(variants, input) ==
    IF \E i \in DOMAIN variants : variants[i] = input
    THEN CHOOSE i \in DOMAIN variants :
             variants[i] = input /\ \A j \in 1..(i - 1) : variants[j] # input
    ELSE 0

\* EnumCompressor::result_width
result_width(variants) == required_bit_width(Len(variants))

\* EnumCompressor::compress with the ordinal counted from one
EnumCompressFromOne(variants, input) ==
    IF Position(variants, input) = 0 THEN ErrOutcome("NoMatchingVariant")
    ELSE NewGlobOutcome(result_width(variants), LeBytes(Position(variants, input), 8))

\* EnumCompressor::compress
EnumCompress(variants, input) ==
    IF Position(variants, input) = 0 THEN ErrOutcome("NoMatchingVariant")
    ELSE NewGlobOutcome(result_width(variants), LeBytes(Position(variants, input) - 1, 8))

\* u64::from_le_bytes of the bytes v whose value fits 31 bits
FromLeBytes(v) ==
    LET f[k \in 1..(Len(v) + 1)] == IF k > Len(v) THEN 0 ELSE v[k] + 256 * f[k + 1]
    IN f[1]

\* EnumCompressor::decompress
EnumDecompress(variants, g) ==
    IF result_width(variants) # g.width THEN ErrOutcome("GlobLengthMismatch")
    ELSE LET data == pad_with_zero(8, g.data)
         IN IF Len(data) # 8 THEN ErrOutcome("TryFromSliceError")
            ELSE LET index == FromLeBytes(data)
                 IN IF index < Len(variants) THEN OkBytes(variants[index + 1])
                    ELSE ErrOutcome("NoVariantWithIndex")

\* IntegerCompressor::compress
IntegerCompress(width, input) ==
    LET byte_count == div_ceil(width, 8)
        sized == IF Len(input) >= byte_count THEN SubSeq(input, 1, byte_count)
                 ELSE pad_with_zero(byte_count, input)
        valid_trailing_bits == width % 8
        masked == IF valid_trailing_bits # 0
                  THEN [sized EXCEPT ![Len(sized)] = AndByte(@, low_mask(valid_trailing_bits))]
                  ELSE sized
    IN NewGlobOutcome(width, masked)

\* IntegerCompressor::decompress
IntegerDecompress(width, g) ==
    IF Len(g.data) >= 8 THEN ErrOutcome("GlobTooLarge")
    ELSE OkBytes(pad_with_zero(8, g.data))

\* Compressor::compress of the compressor c
CompressorCompress(c, input) ==
    CASE c.kind = "PassThrough" -> PassThroughCompress(input)
      [] c.kind = "Enum" -> EnumCompress(c.variants, input)
      [] OTHER -> IntegerCompress(c.width, input)

\* Compressor::decompress of the compressor c
CompressorDecompress(c, g) ==
    CASE c.kind = "PassThrough" -> PassThroughDecompress(g)
      [] c.kind = "Enum" -> EnumDecompress(c.variants, g)
      [] OTHER -> IntegerDecompress(c.width, g)

(***************************************************************************)
(* Specification SpecComp: a compressor compresses an input and             *)
(* decompresses the glob it returned.                                       *)
(***************************************************************************)
\* the i-th variant name: "Foo", "Bar", "Hello World" first, as in the tests
VariantName(i) ==
    CASE i = 1 -> <<70, 111, 111>>
      [] i = 2 -> <<66, 97, 114>>
      [] i = 3 -> <<72, 101, 108, 108, 111, 32, 87, 111, 114, 108, 100>>
      [] OTHER -> <<86, 48 + i>>

\* the variants of Type::new_enum, kept in the order they were supplied:
\* the first n names in the order of the tests, and in the opposite order
VariantLists ==
    {[i \in 1..n |-> VariantName(i)] : n \in 1..MaxVariants}
        \cup {[i \in 1..n |-> VariantName(n + 1 - i)] : n \in 1..MaxVariants}

\* inputs of an enumeration compressor: the variants, one past the last, and
\* byte strings that are no variant
EnumInputs == {VariantName(i) : i \in 1..(MaxVariants + 1)} \cup {<<>>, <<70, 111>>, <<70, 111, 111, 0>>}

PassThroughInputs == {<<>>, <<0>>, <<255>>, StrHi, <<1, 0>>, <<0, 0, 0>>, StrDown}

\* the widths of the names "u0", "u1", ..: builtin() takes any digits
IntWidths == {w \in 0..MaxIntWidth : w \in {0, 1, 3, 8, 9, 16, 55, 56, 57, 63} \/ w = MaxIntWidth}

\* the 8-byte little-endian forms of some u64 values
IntInputs ==
    {[k \in 1..8 |-> IF k \in S THEN 255 ELSE 0] : S \in SUBSET (1..8)}
        \cup {[k \in 1..8 |-> IF k = j THEN b ELSE 0] : j \in 1..8, b \in {1, 5, 128}}

Compressors ==
    {[kind |-> "PassThrough"]}
        \cup {[kind |-> "Enum", variants |-> vs] : vs \in VariantLists}
        \cup {[kind |-> "Integer", width |-> w] : w \in IntWidths}

InputsOf(c) ==
    CASE c.kind = "PassThrough" -> PassThroughInputs
      [] c.kind = "Enum" -> EnumInputs
      [] OTHER -> IntInputs

InitComp ==
    /\ comp \in Compressors
    /\ cin \in InputsOf(comp)
    /\ cout = NoOutcome /\ cback = NoOutcome /\ cmpc = "idle"
    /\ GlobIdle /\ VieIdle /\ CoIdle /\ SerIdle /\ MarkerIdle /\ EncIdle /\ NewIdle
    /\ SchemaIdle /\ ShlIdle /\ AssocIdle

\* compressor.compress(&input)
CompressCall ==
    /\ cmpc = "idle"
    /\ cout' = CompressorCompress(comp, cin)
    /\ cmpc' = "compressed"
    /\ UNCHANGED <<comp, cin, cback, notComp>>

\* compressor.decompress(glob) of the glob compress returned
DecompressCall ==
    /\ cmpc = "compressed" /\ cout.ok
    /\ cback' = CompressorDecompress(comp, cout.g)
    /\ cmpc' = "decompressed"
    /\ UNCHANGED <<comp, cin, cout, notComp>>

NextComp == CompressCall \/ DecompressCall

SpecComp == InitComp /\ [][NextComp]_vars

(***************************************************************************)
(* C19: for each of PassThroughCompressor, EnumCompressor and               *)
(* IntegerCompressor(w), 1 <= w <= 64, and every input x for which          *)
(* compress(x) returns Ok (an 8-byte little-endian u64 for the integer      *)
(* compressor), decompress(compress(x)) returns Ok(x).                      *)
(***************************************************************************)
C19_RoundTrip ==
    cmpc = "decompressed" => (cback.ok /\ cback.bytes = cin)

\* the pass-through and enumeration compressors do round-trip
C19_PassThroughEnumRoundTrip ==
    (cmpc = "decompressed" /\ comp.kind # "Integer") => (cback.ok /\ cback.bytes = cin)

\* bit i (0 = least significant) of the little-endian bytes v is clear from bit w up
ClearFrom(v, w) == \A i \in w..(8 * Len(v) - 1) : BitOf(v[(i \div 8) + 1], i % 8) = 0

\* the integer compressor round-trips exactly the values below 2^w, w <= 56
C19_IntegerRoundTripWhereFits ==
    (cmpc = "decompressed" /\ comp.kind = "Integer") =>
        ((cback.ok /\ cback.bytes = cin) <=> (comp.width <= 56 /\ ClearFrom(cin, comp.width)))

\* IntegerCompressor::new(64): compress is Ok, decompress is an error
C19_Width64Rejected ==
    /\ cmpc = "decompressed" /\ comp = [kind |-> "Integer", width |-> 64]
    /\ cin = [k \in 1..8 |-> IF k = 1 THEN 1 ELSE 0]
    /\ cout.ok /\ ~cback.ok /\ cback.err = "GlobTooLarge"

\* IntegerCompressor::new(8) on 0xff00: the second byte is lost
C19_HighBitsLost ==
    /\ cmpc = "decompressed" /\ comp = [kind |-> "Integer", width |-> 8]
    /\ cin = [k \in 1..8 |-> IF k = 2 THEN 255 ELSE 0]
    /\ cback.ok /\ cback.bytes = [k \in 1..8 |-> 0]

(***************************************************************************)
(* C20: for an enumeration with variant list vs, |vs| >= 2, compress(s) for *)
(* s in vs returns a glob of width required_bit_width(|vs|) whose value,    *)
(* read least significant bit first, is the index of s in vs (3 variants    *)
(* give the 2-bit codes 00, 01, 10 in list order); distinct variants get    *)
(* distinct codes; compress(s) for s not in vs fails with an                *)
(* unknown-variant error and returns no glob.                               *)
(***************************************************************************)
\* the value of the width bits of g, bit 0 least significant
LsbValue(g) ==
    LET f[i \in 0..g.width] == IF i = g.width THEN 0 ELSE BitAt(g.data, i) * Pow2(i) + f[i + 1]
    IN f[0]

IsVariant(vs, s) == \E i \in DOMAIN vs : vs[i] = s

C20_EnumCompression ==
    (cmpc # "idle" /\ comp.kind = "Enum" /\ Len(comp.variants) >= 2) =>
        LET vs == comp.variants
        IN IF IsVariant(vs, cin)
           THEN /\ cout.ok
                /\ cout.g.width = required_bit_width(Len(vs))
                /\ Pow2(cout.g.width) >= Len(vs) /\ Pow2(cout.g.width - 1) < Len(vs)
                /\ \E i \in DOMAIN vs : vs[i] = cin /\ LsbValue(cout.g) = i - 1
                /\ GlobBits(cout.g) = Compress(Enum(vs), JStr(cin))
                /\ \A i \in DOMAIN vs : vs[i] # cin => EnumCompress(vs, vs[i]) # cout
           ELSE /\ ~cout.ok /\ ~cout.panicked
                /\ cout.err = "NoMatchingVariant"
                /\ cout.g = NoGlob
                /\ CompressFails(Enum(vs), JStr(cin))

\* the third of three variants is compressed to the 2-bit code 10
C20_Witness ==
    /\ cmpc = "compressed" /\ comp.kind = "Enum" /\ Len(comp.variants) = 3
    /\ cin = comp.variants[3]
    /\ cout.ok /\ cout.g = Glob(2, <<2>>)

\* a byte string that is no variant is refused
C20_UnknownRefused ==
    /\ cmpc = "compressed" /\ comp.kind = "Enum" /\ Len(comp.variants) = 3
    /\ cin = <<70, 111>>
    /\ ~cout.ok /\ cout.err = "NoMatchingVariant"

(***************************************************************************)
(* C21: the ordinal of an enum variant is its position in the sorted order  *)
(* of the variant set, so two schemas that list the same variants in        *)
(* different orders give every variant the same ordinal and the same        *)
(* compressed bits.                                                         *)
(***************************************************************************)
\* a < b as Rust orders strings: byte by byte, a proper prefix first
LessBytes(a, b) ==
    \E k \in 1..(Len(b) + 1) :
        /\ k <= Len(a) + 1
        /\ \A j \in 1..(k - 1) : a[j] = b[j]
        /\ IF k > Len(a) THEN k <= Len(b)
           ELSE k <= Len(b) /\ a[k] < b[k]

VariantSet(vs) == {vs[i] : i \in DOMAIN vs}

\* the position of s in the ascending order of the variant set
SortedRank(vs, s) == Cardinality({t \in VariantSet(vs) : LessBytes(t, s)})

C21_SortedOrdinals ==
    (cmpc # "idle" /\ comp.kind = "Enum" /\ cout.ok) =>
        /\ LsbValue(cout.g) = SortedRank(comp.variants, cin)
        /\ \A vs \in VariantLists :
              VariantSet(vs) = VariantSet(comp.variants) => EnumCompress(vs, cin) = cout

\* what the code does: the ordinal is the position in the supplied list
C21_OrdinalIsListPosition ==
    (cmpc # "idle" /\ comp.kind = "Enum" /\ cout.ok) =>
        LsbValue(cout.g) = Position(comp.variants, cin) - 1

\* "Foo" listed first of ["Foo", "Bar"] gets 0; listed second of ["Bar", "Foo"] it gets 1
C21_OrderDependent ==
    /\ cmpc = "compressed" /\ comp.kind = "Enum"
    /\ comp.variants = <<VariantName(1), VariantName(2)>> /\ cin = VariantName(1)
    /\ cout.ok /\ cout.g = Glob(1, <<0>>)
    /\ EnumCompress(<<VariantName(2), VariantName(1)>>, cin).g = Glob(1, <<1>>)

(***************************************************************************)
(* schema.rs: Schema::new_record, new_list, field_map, inverse_field_map,   *)
(* marker_width.  A Schema::Record is the sequence of its fields in the     *)
(* ascending key order of its BTreeMap.                                     *)
(***************************************************************************)
\* most (name, type) pairs handed to Schema::new_record
MaxFields == 3

\* the keys of the pairs handed to new_record
PairKeys(pairs) == {pairs[i][1] : i \in DOMAIN pairs}

\* BTreeMap::keys: the k-th key (from 1) in ascending order
KthKey(keys, k) == CHOOSE s \in keys : Cardinality({t \in keys : LessBytes(t, s)}) = k - 1

\* collect into a BTreeMap: the last pair supplied for a key wins
LastPair(pairs, key) ==
    pairs[CHOOSE i \in DOMAIN pairs :
              pairs[i][1] = key /\ \A j \in DOMAIN pairs : pairs[j][1] = key => j <= i]

\* Schema::new_record keeping the keys in the order they were first supplied
schema_new_record_unsorted(pairs) ==
    LET firsts == {i \in DOMAIN pairs : \A j \in 1..(i - 1) : pairs[j][1] # pairs[i][1]}
        nth(k) == CHOOSE i \in firsts : Cardinality({j \in firsts : j < i}) = k - 1
    IN RecordType([k \in 1..Cardinality(firsts) |->
                      FieldType(pairs[nth(k)][1], LastPair(pairs, pairs[nth(k)][1])[2])])

\* Schema::new_record
schema_new_record(pairs) ==
    LET keys == PairKeys(pairs)
    IN RecordType([k \in 1..Cardinality(keys) |->
                      FieldType(KthKey(keys, k), LastPair(pairs, KthKey(keys, k))[2])])

\* Schema::new_list
schema_new_list(t) == ListType(t)

\* Type::new_schema
new_schema(sch) == Nested(sch)

\* Schema::field_map as a map from names to ids, for a record
FieldMapOf(sch) ==
    [key \in {sch.fields[i].key : i \in DOMAIN sch.fields} |-> field_map(sch.fields, key)]

\* Schema::inverse_field_map, for a record
inverse_field_map(sch) ==
    [id \in {(i - 1) + NUM_RESERVED_KEYS : i \in DOMAIN sch.fields} |->
        sch.fields[(id - NUM_RESERVED_KEYS) + 1].key]

\* both maps of a schema; they panic on a list schema
MapsOf(sch) ==
    IF sch.kind = "Record"
    THEN [done |-> TRUE, panicked |-> FALSE, map |-> FieldMapOf(sch), inv |-> inverse_field_map(sch)]
    ELSE [done |-> TRUE, panicked |-> TRUE, map |-> <<>>, inv |-> <<>>]

(***************************************************************************)
(* Specification SpecSchema: a schema is built from the pairs supplied and  *)
(* asked for its field maps and its marker width.                           *)
(***************************************************************************)
FieldNames == {<<97>>, <<98>>, <<97, 98>>}

\* a record of five pass-through fields "v1" .. "v5", supplied in descending order
WideRecord == schema_new_record([i \in 1..5 |-> <<<<118, 54 - i>>, PassThrough>>])

SuppliedTypes == {PassThrough, new_schema(WideRecord), new_schema(schema_new_list(BoolType))}

SuppliedPairs == UNION {[1..n -> FieldNames \X SuppliedTypes] : n \in 0..MaxFields}

SchemaArgs ==
    {[kind |-> "record", pairs |-> ps] : ps \in SuppliedPairs}
        \cup {[kind |-> "list", t |-> t] : t \in SuppliedTypes}

InitSchema ==
    /\ sarg \in SchemaArgs
    /\ built = NoSchema /\ fmaps = NoMaps /\ smw = 0 /\ spc = "idle"
    /\ GlobIdle /\ VieIdle /\ CoIdle /\ SerIdle /\ MarkerIdle /\ EncIdle /\ NewIdle /\ CompIdle
    /\ ShlIdle /\ AssocIdle

\* Schema::new_record(pairs) or Schema::new_list(t)
BuildSchema ==
    /\ spc = "idle"
    /\ built' = IF sarg.kind = "record" THEN schema_new_record(sarg.pairs)
                ELSE schema_new_list(sarg.t)
    /\ spc' = "built"
    /\ UNCHANGED <<sarg, fmaps, smw, notSchema>>

\* schema.field_map() and schema.inverse_field_map()
FieldMaps ==
    /\ spc = "built" /\ ~fmaps.done
    /\ fmaps' = MapsOf(built)
    /\ UNCHANGED <<sarg, built, smw, spc, notSchema>>

\* schema.marker_width()
MarkerWidth ==
    /\ spc = "built" /\ smw = 0
    /\ smw' = schema_marker_width(built)
    /\ UNCHANGED <<sarg, built, fmaps, spc, notSchema>>

NextSchema == BuildSchema \/ FieldMaps \/ MarkerWidth

SpecSchema == InitSchema /\ [][NextSchema]_vars

(***************************************************************************)
(* C22: for a record schema with n distinct field names, field_map gives    *)
(* the name at position i of the ascending name order the id 4 + i: the ids *)
(* are exactly 4 .. n + 3, pairwise distinct, never a reserved value 0..3,  *)
(* and do not depend on the order the fields were supplied in;              *)
(* inverse_field_map is the exact inverse of field_map.                     *)
(***************************************************************************)
ReversePairs(pairs) == [i \in DOMAIN pairs |-> pairs[Len(pairs) + 1 - i]]

C22_FieldIds ==
    (fmaps.done /\ sarg.kind = "record") =>
        LET names == PairKeys(sarg.pairs)
            n == Cardinality(names)
        IN /\ ~fmaps.panicked
           /\ DOMAIN fmaps.map = names
           /\ \A s \in names : fmaps.map[s] = 4 + Cardinality({t \in names : LessBytes(t, s)})
           /\ {fmaps.map[s] : s \in names} = 4..(n + 3)
           /\ \A s, t \in names : s # t => fmaps.map[s] # fmaps.map[t]
           /\ fmaps.map = FieldMapOf(schema_new_record(ReversePairs(sarg.pairs)))
           /\ DOMAIN fmaps.inv = 4..(n + 3)
           /\ \A s \in names : fmaps.inv[fmaps.map[s]] = s
           /\ \A id \in DOMAIN fmaps.inv : fmaps.map[fmaps.inv[id]] = id

\* "b" then "a" supplied: "a" gets 4, "b" gets 5
C22_Witness ==
    /\ fmaps.done /\ sarg.kind = "record" /\ Len(sarg.pairs) = 2
    /\ sarg.pairs[1][1] = <<98>> /\ sarg.pairs[2][1] = <<97>>
    /\ fmaps.map[<<97>>] = 4 /\ fmaps.map[<<98>>] = 5
    /\ fmaps.inv[4] = <<97>>

(***************************************************************************)
(* C23: marker_width() of a schema is the maximum, over all records of the  *)
(* schema, root and nested, of required_bit_width(number_of_fields + 4)     *)
(* (2 for a schema without records), so every field id of every record of   *)
(* the schema is below 2^W.                                                 *)
(***************************************************************************)
MaxOf(S) == CHOOSE m \in S : \A k \in S : k <= m

\* the field counts of the records of a schema, root and nested
RECURSIVE RecordSizes(_)
RecordSizes(sch) ==
    IF sch.kind = "Record"
    THEN {Len(sch.fields)} \cup
         UNION {IF sch.fields[i].t.kind = "Nested" THEN RecordSizes(sch.fields[i].t.ct) ELSE {}
                : i \in DOMAIN sch.fields}
    ELSE IF sch.elem.kind = "Nested" THEN RecordSizes(sch.elem.ct) ELSE {}

C23_SchemaWideMarkerWidth ==
    smw # 0 =>
        /\ smw = MaxOf({2} \cup {required_bit_width(n + 4) : n \in RecordSizes(built)})
        /\ \A n \in RecordSizes(built) : n + 3 < Pow2(smw)

\* what the code does: only the root is looked at
C23_RootOnly ==
    smw # 0 =>
        smw = required_bit_width((IF built.kind = "Record" THEN Len(built.fields) ELSE 0) + 4)

\* a root of one field holding the five-field record: width 3, nested id 8
C23_NestedIdTooWide ==
    /\ sarg = [kind |-> "record", pairs |-> <<<<(<<97>>), new_schema(WideRecord)>>>>]
    /\ smw = 3
    /\ FieldMapOf(built.fields[1].t.ct)[<<118, 53>>] = 8

(***************************************************************************)
(* C24: when the validator consumes a Terminator inside a nested scope it   *)
(* returns to exactly the enclosing scope, with that scope's container      *)
(* kind, at any depth: the blocks after the Terminator are checked against  *)
(* the parent's kind, and the nesting depth after an accepted prefix is the *)
(* number of nested Headers minus the number of Terminators in it.          *)
(***************************************************************************)
\* the outcome of the validator after consuming the first k blocks of bs
RECURSIVE StateAfter(_, _)
StateAfter(bs, k) ==
    IF k = 0 THEN Ok(StInit, 0)
    ELSE LET p == StateAfter(bs, k - 1)
         IN IF ~ p.ok THEN p ELSE advance_state(p.state, k - 1, bs)

\* the outcomes after 0, 1, .., Len(bs) blocks: element k + 1 is StateAfter(bs, k)
RECURSIVE TraceFrom(_, _)
TraceFrom(bs, acc) ==
    IF Len(acc) > Len(bs) THEN acc
    ELSE LET p == acc[Len(acc)]
         IN TraceFrom(bs, Append(acc, IF ~ p.ok THEN p
                                      ELSE advance_state(p.state, Len(acc) - 1, bs)))

Trace(bs) == TraceFrom(bs, <<Ok(StInit, 0)>>)

\* the container markers of a validator state, the root's first
RECURSIVE Chain(_)
Chain(state) ==
    CASE state.s = "Root" -> <<state.m>>
      [] state.s = "Nested" -> Append(Chain(state.previous), state.m)
      [] OTHER -> <<>>

\* the scopes open after the first k blocks: a header pushes its container
\* marker, a terminator pops
RECURSIVE OpenScopes(_, _)
OpenScopes(bs, k) ==
    IF k = 0 THEN <<>>
    ELSE LET below == OpenScopes(bs, k - 1)
         IN IF bs[k].kind = "Header" THEN Append(below, bs[k].m1)
            ELSE IF bs[k].kind = "Terminator" THEN SubSeq(below, 1, Len(below) - 1)
            ELSE below

CountBlocks(bs, k, kind) == Cardinality({i \in 1..k : bs[i].kind = kind})

C24_ScopeRestoration ==
    cpc = "validated" =>
    LET t == Trace(blocks)
    IN \A k \in 1..Len(blocks) :
        LET before == t[k]
            after == t[k + 1]
        IN (before.ok /\ after.ok) =>
              /\ Chain(after.state) = OpenScopes(blocks, k)
              /\ Len(Chain(after.state)) - 1
                    = (CountBlocks(blocks, k, "Header") - 1) - CountBlocks(blocks, k, "Terminator")
              /\ blocks[k].kind = "Terminator" =>
                    /\ before.state.s = "Nested"
                    /\ after.state = before.state.previous
              /\ (k > 1 /\ blocks[k].kind = "Data") =>
                    LET parent == OpenScopes(blocks, k - 1)[Len(OpenScopes(blocks, k - 1))]
                    IN /\ is_record(parent) => is_field(blocks[k].m)
                       /\ is_list(parent) => is_element(blocks[k].m)

\* a record root, a nested list that is closed, then a Field data block: accepted
C24_Witness ==
    /\ cpc = "validated" /\ result.ok /\ Len(blocks) = 4
    /\ blocks[1] = Header(Record, Null)
    /\ blocks[2] = Header(List, Field(4))
    /\ blocks[3] = Terminator
    /\ blocks[4].kind = "Data" /\ is_field(blocks[4].m)

\* the same with an Element data block after the Terminator: rejected
C24_ElementAfterTerminator ==
    /\ cpc = "validated" /\ ~ result.ok /\ result.err = "WrongMarkerType" /\ Len(blocks) = 4
    /\ blocks[1] = Header(Record, Null)
    /\ blocks[2] = Header(List, Field(4))
    /\ blocks[3] = Terminator
    /\ blocks[4].kind = "Data" /\ is_element(blocks[4].m)

\* two nested scopes, the inner one closed: the validator is back in the outer one
C24_DepthTwo ==
    /\ cpc = "validated" /\ result.ok /\ Len(blocks) = 4
    /\ blocks[2].kind = "Header" /\ blocks[3].kind = "Header" /\ blocks[4] = Terminator
    /\ Chain(StateAfter(blocks, 4).state) = <<blocks[1].m1, blocks[2].m1>>

C25_EmptyAccepted == cpc = "validated" /\ blocks = <<>> /\ result = ValidOk

\* an object that ends in the root scope validates
C25_RootAccepted ==
    /\ cpc = "validated" /\ result = ValidOk
    /\ Len(blocks) > 1 /\ Len(OpenScopes(blocks, Len(blocks))) = 1

(***************************************************************************)
(* Specification SpecShl: vec_shl is applied to a byte vector.              *)
(***************************************************************************)
\* longest byte vector shifted
MaxShlLen == 3

ShlBytes == {0, 1, 115, 128, 255}

InitShl ==
    /\ shl_v \in UNION {[1..n -> ShlBytes] : n \in 0..MaxShlLen}
    /\ shl_k \in 0..8
    /\ shl_out = <<>> /\ shpc = "idle"
    /\ GlobIdle /\ VieIdle /\ CoIdle /\ SerIdle /\ MarkerIdle /\ EncIdle /\ NewIdle /\ CompIdle
    /\ SchemaIdle /\ AssocIdle

\* vec_shl(v, n)
VecShl ==
    /\ shpc = "idle"
    /\ shl_out' = vec_shl(shl_v, shl_k)
    /\ shpc' = "done"
    /\ UNCHANGED <<shl_v, shl_k, notShl>>

NextShl == VecShl

SpecShl == InitShl /\ [][NextShl]_vars

(***************************************************************************)
(* C26: vec_shl is an exact left shift: for every byte vector v and every   *)
(* k in 0..8 the little-endian natural of vec_shl(v, k) is that of v times  *)
(* 2^k, no bit lost, also for k = 8; for 0 < k < 8 the result has           *)
(* len(v) + 1 bytes, the last being the final carry even when it is zero.   *)
(***************************************************************************)
\* bit i of the little-endian natural of the bytes v, 0 beyond its length
NatBit(v, i) == IF i < 0 \/ i >= 8 * Len(v) THEN 0 ELSE BitOf(v[(i \div 8) + 1], i % 8)

\* the natural of out is the natural of v times 2^k, stated bit by bit
ShiftedBy(out, v, k) ==
    \A i \in 0..(8 * (Len(v) + 2)) : NatBit(out, i) = NatBit(v, i - k)

C26_VecShlExact ==
    shpc = "done" =>
        /\ ShiftedBy(shl_out, shl_v, shl_k)
        /\ (0 < shl_k /\ shl_k < 8) => Len(shl_out) = Len(shl_v) + 1

\* below 8 the shift is exact and the carry byte is there
C26_ExactBelowEight ==
    (shpc = "done" /\ shl_k < 8) =>
        /\ ShiftedBy(shl_out, shl_v, shl_k)
        /\ Len(shl_out) = Len(shl_v) + (IF shl_k = 0 THEN 0 ELSE 1)

\* by 8 the last byte of v is dropped
C26_ShiftByEight ==
    (shpc = "done" /\ shl_k = 8) =>
        shl_out = [i \in 1..Len(shl_v) |-> IF i = 1 THEN 0 ELSE shl_v[i - 1]]

\* vec_shl([0x01], 8) = [0x00]
C26_ByteLost == shpc = "done" /\ shl_v = <<1>> /\ shl_k = 8 /\ shl_out = <<0>>

\* the documented example: vec_shl([0x73, 0x01], 2) = [0xcc, 0x05, 0x00]
C26_Example == shpc = "done" /\ shl_v = <<115, 1>> /\ shl_k = 2 /\ shl_out = <<204, 5, 0>>

(***************************************************************************)
(* C27: for every object on which validate() returns Ok and every marker    *)
(* width W >= 1, into_bytes(W) completes and returns bytes without          *)
(* aborting; in particular no validated object holds a Field marker with a  *)
(* reserved value 0..3, on which value() aborts.                            *)
(***************************************************************************)
C27_ValidatedSerializes ==
    result.ok =>
        /\ \A i \in DOMAIN blocks : \A m \in MarkersOf(blocks[i]) : ~ MarkerValuePanics(m)
        /\ cpc # "panicked"

\* objects without a reserved Field value are serialized without a panic
C27_PanicsOnlyOnReserved ==
    cpc = "panicked" =>
        \E i \in DOMAIN blocks : \E m \in MarkersOf(blocks[i]) : MarkerValuePanics(m)

\* new_record(); push_data(Field(2), ..): validate() is Ok, into_bytes(3) panics
C27_ReservedFieldValidated ==
    /\ cpc = "panicked" /\ result = ValidOk /\ marker_width = 3
    /\ blocks = <<Header(Record, Null), Data(Field(2), <<7>>, Glob(7, <<113>>))>>

(***************************************************************************)
(* Specification SpecAssoc: three globs are appended in the two groupings.  *)
(***************************************************************************)
\* widest glob among the three that are appended
MaxAssocWidth == 10

\* for every width the globs of all zeros, all ones and alternating bits
AssocGlobs ==
    {Glob(w, LeBytes(v, div_ceil(w, 8))) : <<w, v>> \in
        {p \in (1..MaxAssocWidth) \X (0..(Pow2(MaxAssocWidth) - 1)) :
            p[1] \in {1, 3, 7, 8, MaxAssocWidth} /\ p[2] \in GlobValues(p[1])}}

InitAssoc ==
    /\ ga \in AssocGlobs /\ gb \in AssocGlobs /\ gc \in AssocGlobs
    /\ gleft = NoGlob /\ gright = NoGlob /\ apc = "idle"
    /\ GlobIdle /\ VieIdle /\ CoIdle /\ SerIdle /\ MarkerIdle /\ EncIdle /\ NewIdle /\ CompIdle
    /\ SchemaIdle /\ ShlIdle

\* a.append(b); a.append(c)
AppendLeft ==
    /\ apc \in {"idle", "right"}
    /\ gleft' = GlobAppend(GlobAppend(ga, gb), gc)
    /\ apc' = IF apc = "idle" THEN "left" ELSE "both"
    /\ UNCHANGED <<ga, gb, gc, gright, notAssoc>>

\* b.append(c); a.append(b)
AppendRight ==
    /\ apc \in {"idle", "left"}
    /\ gright' = GlobAppend(ga, GlobAppend(gb, gc))
    /\ apc' = IF apc = "idle" THEN "right" ELSE "both"
    /\ UNCHANGED <<ga, gb, gc, gleft, notAssoc>>

NextAssoc == AppendLeft \/ AppendRight

SpecAssoc == InitAssoc /\ [][NextAssoc]_vars

(***************************************************************************)
(* C28: append is associative on globs that satisfy the Glob invariants:    *)
(* appending b to a and then c gives the same glob, width and data, as      *)
(* appending to a the result of appending c to b.                           *)
(***************************************************************************)
C28_AppendAssociative ==
    apc = "both" =>
        /\ GlobInvariant(ga) /\ GlobInvariant(gb) /\ GlobInvariant(gc)
        /\ gleft = gright
        /\ gleft.width = ga.width + gb.width + gc.width
        /\ GlobBits(gleft) = GlobBits(ga) \o GlobBits(gb) \o GlobBits(gc)

\* three globs none of which ends on a byte boundary, with bits set
C28_Witness ==
    /\ apc = "both"
    /\ ga = Glob(3, <<7>>) /\ gb = Glob(7, <<127>>) /\ gc = Glob(10, <<255, 3>>)
    /\ gleft = Glob(20, <<255, 255, 15>>) /\ gright = gleft

(***************************************************************************)
(* C29: compressors never build a zero-width glob: for every input the      *)
(* compressor accepts (any byte string, the empty one too, for the          *)
(* pass-through compressor; any listed variant, also of a single-variant    *)
(* enum, for the enumeration compressor; any u64, for every configured      *)
(* width, for the integer compressor) compress returns Ok with a glob of    *)
(* width > 0 that satisfies the Glob invariants, and Glob::new never        *)
(* aborts on a zero width.                                                  *)
(***************************************************************************)
\* the inputs a compressor accepts
AcceptedInput ==
    comp.kind = "Enum" => IsVariant(comp.variants, cin)

C29_NoZeroWidthGlob ==
    (cmpc # "idle" /\ AcceptedInput) =>
        /\ ~ cout.panicked
        /\ cout.ok
        /\ cout.g.width > 0
        /\ GlobInvariant(cout.g)

\* where compress does return a glob, the glob satisfies the invariants
C29_ReturnedGlobsValid ==
    (cmpc # "idle" /\ cout.ok) => GlobInvariant(cout.g)

\* compress panics exactly on the inputs whose glob would have no bits
C29_PanicsOnZeroWidth ==
    cmpc # "idle" =>
        (cout.panicked <=>
            \/ comp.kind = "PassThrough" /\ cin = <<>>
            \/ comp.kind = "Enum" /\ Len(comp.variants) = 1 /\ IsVariant(comp.variants, cin)
            \/ comp.kind = "Integer" /\ comp.width = 0)

\* PassThroughCompressor.compress(b"") panics
C29_EmptyPassThrough ==
    cmpc = "compressed" /\ comp.kind = "PassThrough" /\ cin = <<>> /\ cout.panicked

\* the compressor of a single-variant enum panics on its variant
C29_SingleVariant ==
    /\ cmpc = "compressed" /\ comp.kind = "Enum" /\ comp.variants = <<VariantName(1)>>
    /\ cin = VariantName(1) /\ cout.panicked

(***************************************************************************)
(* C30: the validator terminates and fails fast: for an object of n blocks  *)
(* validate() consumes each block at most once, in order (at most n + 1     *)
(* state transitions); it stops at the first offending block, so its        *)
(* result depends only on the blocks up to and including that one; it       *)
(* leaves the blocks unchanged, so a repeated call returns the same result. *)
(***************************************************************************)
\* the first block the validator refuses, 0 if it accepts them all
FirstOffending(bs) ==
    LET t == Trace(bs)
    IN IF t[Len(bs) + 1].ok THEN 0
       ELSE CHOOSE k \in 1..Len(bs) : ~ t[k + 1].ok /\ t[k].ok

\* blocks that may follow the offending one: one of each kind
Extensions == {Terminator, Header(Record, Null), Data(Element, LengthOf(7), GlobNew(7, <<113>>))}

C30_Validated ==
    cpc = "validated" =>
        LET n == Len(blocks)
            k == FirstOffending(blocks)
            t == Trace(blocks)
            steps == RunSteps(StInit, 0, blocks)
        IN /\ steps <= n + 1
           /\ \A j \in 1..n : t[j + 1].ok => t[j + 1].index = j
           /\ result.ok <=> k = 0
           /\ k = 0 => steps = n + 1
           /\ k # 0 =>
                 /\ steps = k
                 /\ result = Validate(SubSeq(blocks, 1, k))
                 /\ \A b \in Extensions : Validate(Append(blocks, b)) = result

\* validate() leaves the blocks alone, and called again it returns the same
C30_Step ==
    (cpc' = "validated") =>
        /\ blocks' = blocks
        /\ cpc = "validated" => result' = result

C30_FailFast == [](C30_Validated) /\ [][C30_Step]_vars

\* an object refused at its third block of three, after 3 transitions
C30_Witness ==
    /\ cpc = "validated" /\ ~ result.ok
    /\ Len(blocks) = 3 /\ FirstOffending(blocks) = 3
    /\ RunSteps(StInit, 0, blocks) = 3

\* an accepted object of four blocks, after 5 transitions
C30_WitnessAccepted ==
    /\ cpc = "validated" /\ result.ok
    /\ Len(blocks) = 4 /\ RunSteps(StInit, 0, blocks) = 5

====
